---------------------------- MODULE Spec2Model ----------------------------
(***************************************************************************)
(* Verification model of the vkeys IPC bridge.                             *)
(*                                                                         *)
(*   egress  : app/src/ipc_observer.c    (client table, accept thread,     *)
(*             broadcast_event)                                            *)
(*   ingress : app/module/drivers/kscan/kscan_ipc.c (reader thread,        *)
(*             dispatch_message, driver API)                               *)
(*   framing : zmk_ipc_frame_send / zmk_ipc_frame_recv / recv_exact        *)
(*                                                                         *)
(* Connections are modelled as unique positive handles; byte streams are   *)
(* sequences of bytes (0..255).                                            *)
(***************************************************************************)
EXTENDS Integers, Sequences, FiniteSets, TLC

(***************************************************************************)
(* Bounds of the model                                                     *)
(***************************************************************************)
\* number of injector connections the environment ever opens on the ingress socket
MaxPeers == 2
\* number of frames the injectors write in all
MaxFrames == 3
\* number of broadcast_event calls the host threads make in all
MaxCalls == 2
\* byte counts a short send() may stop at: inside the prefix, inside the payload
PartialLens == {2, 5}

(***************************************************************************)
(* Program constants                                                       *)
(***************************************************************************)
MAX_CLIENTS == 2
\* sentinel of a free slot / absent descriptor
FREE == -1
\* descriptor of the listening socket
LISTEN_FD == 100
\* errno values (returned negated)
EINTR == 4
EIO == 5
EINVAL == 22
EAGAIN == 11
EPIPE == 32
EBADMSG == 74
EMSGSIZE == 90
ECONNRESET == 104
EMFILE == 24
\* largest encoded ZmkEvent of the modelled schema
zmk_ipc_ZmkEvent_size == 3
ZMK_IPC_EVENT_FRAME_MAX == 4 + zmk_ipc_ZmkEvent_size
\* payload tag of a KscanEvent inside a ZmkEvent
KSCAN_EVENT_TAG == 10

\* observer connections the environment ever opens: one more than the table holds
MaxConns == MAX_CLIENTS + 1

\* largest encoded ClientMessage of the modelled schema
zmk_ipc_ClientMessage_size == 5
\* which_payload / which_address tags and KeyEvent.Action values of the schema
KEY_EVENT_TAG == 1
KEY_POS_TAG == 2
POSITION_TAG == 3
ACTION_PRESS == 0
ACTION_RELEASE == 1
\* the null callback pointer and the host's key-scan callback
NULL == 0
HOST_CALLBACK == 1

Broadcasters == {1, 2}
ACCEPT_THREAD == 0
NO_OWNER == -1
Slots == 0 .. (MAX_CLIENTS - 1)
Handles == 1 .. MaxConns

(***************************************************************************)
(* Byte helpers                                                            *)
(***************************************************************************)
\* sys_cpu_to_be32 + memcpy: the four bytes of n, most significant first
BE32(n) ==
    << (n \div 16777216) % 256, (n \div 65536) % 256, (n \div 256) % 256, n % 256 >>

\* the four bytes read as a little-endian word, sys_be32_to_cpu forgotten
FromBE32_HostOrder(b) ==
    b[4] * 16777216 + b[3] * 65536 + b[2] * 256 + b[1]

\* sys_be32_to_cpu on four bytes
FromBE32(b) ==
    b[1] * 16777216 + b[2] * 65536 + b[3] * 256 + b[4]

Min(a, b) == IF a < b THEN a ELSE b

\* the wire format of one frame: [4-byte big-endian length][payload]
Frame(payload) == BE32(Len(payload)) \o payload


(***************************************************************************)
(* State                                                                   *)
(***************************************************************************)
VARIABLES
    \* ---- egress: ipc_observer.c ----
    server_fd,      \* listening descriptor, FREE when not open
    client_fds,     \* slot -> handle, FREE when the slot is free
    clients_mutex,  \* owner of clients_mutex, NO_OWNER when unlocked
    init_pc,        \* "boot" before ipc_observer_init has run, then "done"
    apc,            \* position of the accept thread
    a_client,       \* accept thread local `client`
    bpc,            \* position of each broadcasting host thread
    b_i,            \* loop index i of broadcast_event
    b_ev,           \* the event of the call in progress
    b_buf,          \* buf[0..encoded_len) of the call in progress
    b_calls,        \* calls started by each host thread
    \* ---- egress: environment ----
    backlog,        \* connections queued on the listening socket
    nextConn,       \* next connection handle the environment will use
    peerClosed,     \* observer connections whose peer has closed its end
    closes,         \* handle -> number of close() calls made on it
    stream,         \* handle -> bytes written to that connection so far
    \* ---- egress: history ----
    b_sent,         \* slot -> result of the frame_send of the call in progress
    b_enc,          \* zmk_ipc_encode_event invocations of the call in progress
    b_snap,         \* client_fds as it was when the call took the mutex
    b_dead,         \* clients in the table with a closed peer when the call began
    rejected,       \* connections the accept thread closed because the table was full
    b_rej,          \* `rejected` as it was when the call began
    lock_log,       \* the calls that took clients_mutex, in that order: event, table
    \* ---- HID adapters: ipc_observer.c ----
    h_str,          \* transport_str handed to a notify function
    h_ep,           \* the zmk_ipc_Endpoint endpoint_from_str returned
    h_pc,           \* "idle": no report pending, "call": string given, "done": built
    \* ---- ingress: kscan_ipc.c ----
    cfg,            \* struct kscan_ipc_config: rows, columns
    data,           \* struct kscan_ipc_data: callback, server_fd, client_fd, enabled
    k_init_pc,      \* "boot" before kscan_ipc_init has run, then "done"
    rpc,            \* position of the reader thread
    r_buf,          \* bytes recv_exact has received so far into its buffer
    r_len,          \* msg_len of the frame being received
    r_ret,          \* value returned by zmk_ipc_frame_recv
    r_msg,          \* the decoded ClientMessage
    r_ev,           \* row, col, pressed computed by dispatch_message
    \* ---- ingress: environment ----
    k_backlog,      \* connections queued on the ingress listening socket
    k_next,         \* next ingress connection handle the environment will use
    k_state,        \* handle -> "none", "queued", "open" (accepted), "closed"
    k_peerClosed,   \* ingress connections whose peer has closed its end
    wire,           \* handle -> bytes written by the peer and not yet received
    k_frames,       \* frames written by the injectors so far
    \* ---- ingress: history ----
    k_sent,         \* handle -> the frames its peer has written, in order
    rlog,           \* handle -> outcome of each frame received on it, while it is open
    k_why,          \* handle -> why the reader closed it ("" while not closed)
    k_pend,         \* handle -> bytes of the frame its peer is writing, not yet written
    api_ret         \* value returned by the last call of the kscan driver API

evars == << server_fd, client_fds, clients_mutex, init_pc, apc, a_client, bpc, b_i, b_ev, b_buf, b_calls, backlog, nextConn, peerClosed, closes,
            stream, b_sent, b_enc, b_snap, b_dead, rejected, b_rej, lock_log >>

ivars == << cfg, data, k_init_pc, rpc, r_buf, r_len, r_ret, r_msg, r_ev, k_backlog,
            k_next, k_state, k_peerClosed, wire, k_frames, k_sent, rlog, k_why, k_pend,
            api_ret >>

hvars == << h_str, h_ep, h_pc >>

vars == << evars, ivars, hvars >>

(***************************************************************************)
(* Framing codec, egress direction                                         *)
(***************************************************************************)
\* pb_encode of a ZmkEvent carrying a KscanEvent (nanopb, schema not in src)
EncodeEvent(ev) == << KSCAN_EVENT_TAG, ev.source, ev.position >>

\* zmk_ipc_encode_event: -EIO when pb_encode fails, else the encoded bytes
zmk_ipc_encode_event(ev, buf_size) ==
    IF (~ev.valid) \/ Len(EncodeEvent(ev)) > buf_size
    THEN [ret |-> -EIO, buf |-> << >>]
    ELSE [ret |-> 0, buf |-> EncodeEvent(ev)]

\* send(fd, frame, n, MSG_NOSIGNAL | MSG_DONTWAIT) on a stream socket:
\* everything, a prefix, or nothing with an errno
SendResults(h, frame) ==
    IF h \in peerClosed
    THEN { [sent |-> -1, errno |-> EPIPE] }
    ELSE { [sent |-> Len(frame), errno |-> 0], [sent |-> -1, errno |-> EAGAIN] }
         \cup { [sent |-> k, errno |-> 0] : k \in PartialLens \cap (1 .. (Len(frame) - 1)) }

\* the length copied in host (little-endian) byte order, sys_cpu_to_be32 forgotten
zmk_ipc_frame_send_HostOrder(h, payload) ==
    LET n     == Len(payload)
        frame == << n % 256, (n \div 256) % 256, (n \div 65536) % 256,
                    (n \div 16777216) % 256 >> \o payload
    IN  { [ret     |-> IF r.sent < 0 THEN -r.errno
                       ELSE IF r.sent # Len(payload) + 4 THEN -EIO ELSE 0,
           written |-> IF r.sent < 0 THEN << >> ELSE SubSeq(frame, 1, r.sent)]
          : r \in SendResults(h, frame) }

\* the test sent != len + 4 left out: a short write counts as success
zmk_ipc_frame_send_AcceptsShort(h, payload) ==
    IF Len(payload) + 4 > ZMK_IPC_EVENT_FRAME_MAX
    THEN { [ret |-> -EMSGSIZE, written |-> << >>] }
    ELSE LET frame == Frame(payload)
         IN  { [ret     |-> IF r.sent < 0 THEN -r.errno ELSE 0,
                written |-> IF r.sent < 0 THEN << >> ELSE SubSeq(frame, 1, r.sent)]
               : r \in SendResults(h, frame) }

\* zmk_ipc_frame_send: one buffer [BE32 len][payload], one send()
zmk_ipc_frame_send(h, payload) ==
    IF Len(payload) + 4 > ZMK_IPC_EVENT_FRAME_MAX
    THEN { [ret |-> -EMSGSIZE, written |-> << >>] }
    ELSE LET frame == Frame(payload)
         IN  { [ret     |-> IF r.sent < 0 THEN -r.errno
                            ELSE IF r.sent # Len(payload) + 4 THEN -EIO ELSE 0,
                written |-> IF r.sent < 0 THEN << >> ELSE SubSeq(frame, 1, r.sent)]
               : r \in SendResults(h, frame) }

(***************************************************************************)
(* Egress: initialisation                                                  *)
(***************************************************************************)
\* ipc_observer_init: all slots free, then socket/bind/listen (ok or failed)
ipc_observer_init ==
    /\ init_pc = "boot"
    /\ client_fds' = [i \in Slots |-> FREE]
    /\ \E ok \in BOOLEAN : server_fd' = IF ok THEN LISTEN_FD ELSE FREE
    /\ init_pc' = "done"
    /\ UNCHANGED << clients_mutex, apc, a_client, bpc, b_i, b_ev, b_buf,
                    b_calls, backlog, nextConn, peerClosed, closes, rejected, stream,
                    b_sent, b_enc, b_snap, b_dead, b_rej >>
    /\ UNCHANGED << ivars, hvars, lock_log >>

(***************************************************************************)
(* Egress: environment (observer programs)                                 *)
(***************************************************************************)
\* an observer connects: the kernel queues the connection
PeerConnect ==
    /\ server_fd # FREE
    /\ nextConn <= MaxConns
    /\ backlog' = Append(backlog, nextConn)
    /\ nextConn' = nextConn + 1
    /\ UNCHANGED << server_fd, client_fds, clients_mutex, init_pc, apc, a_client,
                    bpc, b_i, b_ev, b_buf, b_calls, peerClosed, closes, rejected,
                    stream, b_sent, b_enc, b_snap, b_dead, b_rej >>
    /\ UNCHANGED << ivars, hvars, lock_log >>

\* an observer closes its end of a connection the server still has open
PeerClose(h) ==
    /\ h < nextConn
    /\ h \notin peerClosed
    /\ closes[h] = 0
    /\ peerClosed' = peerClosed \cup {h}
    /\ UNCHANGED << server_fd, client_fds, clients_mutex, init_pc, apc, a_client,
                    bpc, b_i, b_ev, b_buf, b_calls, backlog, nextConn,
                    closes, rejected, stream, b_sent, b_enc, b_snap, b_dead, b_rej >>
    /\ UNCHANGED << ivars, hvars, lock_log >>

(***************************************************************************)
(* Egress: accept thread, ipc_accept_thread_func                           *)
(***************************************************************************)
\* accept() returns a new connection
AcceptOk ==
    /\ init_pc = "done"
    /\ apc = "accept"
    /\ server_fd # FREE
    /\ backlog # << >>
    /\ a_client' = Head(backlog)
    /\ backlog' = Tail(backlog)
    /\ apc' = "lock"
    /\ UNCHANGED << server_fd, client_fds, clients_mutex, init_pc, bpc, b_i, b_ev,
                    b_buf, b_calls, nextConn, peerClosed, closes, rejected, stream, b_sent,
                    b_enc, b_snap, b_dead, b_rej >>
    /\ UNCHANGED << ivars, hvars, lock_log >>

\* accept() fails: EINTR retries at once, anything else sleeps 100 ms
AcceptFail(e) ==
    /\ init_pc = "done"
    /\ apc = "accept"
    /\ a_client' = -1
    /\ apc' = IF e = EINTR THEN "accept" ELSE "sleep"
    /\ UNCHANGED << server_fd, client_fds, clients_mutex, init_pc, bpc, b_i, b_ev,
                    b_buf, b_calls, backlog, nextConn, peerClosed, closes, rejected, stream,
                    b_sent, b_enc, b_snap, b_dead, b_rej >>
    /\ UNCHANGED << ivars, hvars, lock_log >>

\* k_sleep(K_MSEC(100)) returns
AcceptWake ==
    /\ apc = "sleep"
    /\ apc' = "accept"
    /\ UNCHANGED << server_fd, client_fds, clients_mutex, init_pc, a_client, bpc, b_i, b_ev, b_buf, b_calls, backlog, nextConn, peerClosed,
                    closes, rejected, stream, b_sent, b_enc, b_snap, b_dead, b_rej >>
    /\ UNCHANGED << ivars, hvars, lock_log >>

\* the accept thread going on without waiting for the owner to release the mutex
AcceptLock_NoExclusion ==
    /\ apc = "lock"
    /\ clients_mutex' = ACCEPT_THREAD
    /\ apc' = "insert"
    /\ UNCHANGED << server_fd, client_fds, init_pc, a_client, bpc, b_i,
                    b_ev, b_buf, b_calls, backlog, nextConn, peerClosed, closes, rejected,
                    stream, b_sent, b_enc, b_snap, b_dead, b_rej >>
    /\ UNCHANGED << ivars, hvars, lock_log >>

\* k_mutex_lock(&clients_mutex, K_FOREVER) in the accept thread
AcceptLock ==
    /\ apc = "lock"
    /\ clients_mutex = NO_OWNER
    /\ clients_mutex' = ACCEPT_THREAD
    /\ apc' = "insert"
    /\ UNCHANGED << server_fd, client_fds, init_pc, a_client, bpc, b_i,
                    b_ev, b_buf, b_calls, backlog, nextConn, peerClosed, closes, rejected,
                    stream, b_sent, b_enc, b_snap, b_dead, b_rej >>
    /\ UNCHANGED << ivars, hvars, lock_log >>

\* a full table taken for one with room in its first slot
FirstFreeSlot_Overwrite(fds) ==
    IF \E i \in Slots : fds[i] < 0
    THEN CHOOSE i \in Slots : fds[i] < 0 /\ \A j \in Slots : fds[j] < 0 => i <= j
    ELSE 0

\* the slot the insertion loop stores into: FREE (-1) when no slot is free
FirstFreeSlot(fds) ==
    IF \E i \in Slots : fds[i] < 0
    THEN CHOOSE i \in Slots : fds[i] < 0 /\ \A j \in Slots : fds[j] < 0 => i <= j
    ELSE -1

\* accepted = true left out: the client is stored and then closed as rejected
AcceptInsert_ForgetsAccepted ==
    /\ apc = "insert"
    /\ clients_mutex = ACCEPT_THREAD
    /\ LET i == FirstFreeSlot(client_fds)
       IN  /\ client_fds' = IF i >= 0 THEN [client_fds EXCEPT ![i] = a_client]
                            ELSE client_fds
           /\ apc' = "reject"
    /\ clients_mutex' = NO_OWNER
    /\ UNCHANGED << server_fd, init_pc, a_client, bpc, b_i, b_ev, b_buf,
                    b_calls, backlog, nextConn, peerClosed, closes, rejected, stream, b_sent,
                    b_enc, b_snap, b_dead, b_rej >>
    /\ UNCHANGED << ivars, hvars, lock_log >>

\* the for loop storing the client into the first free slot, then the unlock
AcceptInsert ==
    /\ apc = "insert"
    /\ clients_mutex = ACCEPT_THREAD
    /\ LET i == FirstFreeSlot(client_fds)
       IN  /\ client_fds' = IF i >= 0 THEN [client_fds EXCEPT ![i] = a_client]
                            ELSE client_fds
           /\ apc' = IF i >= 0 THEN "accept" ELSE "reject"
    /\ clients_mutex' = NO_OWNER
    /\ UNCHANGED << server_fd, init_pc, a_client, bpc, b_i, b_ev, b_buf,
                    b_calls, backlog, nextConn, peerClosed, closes, rejected, stream, b_sent,
                    b_enc, b_snap, b_dead, b_rej >>
    /\ UNCHANGED << ivars, hvars, lock_log >>

\* !accepted: close(client)
AcceptReject ==
    /\ apc = "reject"
    /\ closes' = [closes EXCEPT ![a_client] = @ + 1]
    /\ rejected' = rejected \cup {a_client}
    /\ apc' = "accept"
    /\ UNCHANGED << server_fd, client_fds, clients_mutex, init_pc, a_client, bpc, b_i, b_ev, b_buf, b_calls, backlog, nextConn, peerClosed,
                    stream, b_sent, b_enc, b_snap, b_dead, b_rej >>
    /\ UNCHANGED << ivars, hvars, lock_log >>


(***************************************************************************)
(* Egress: broadcast_event, called by host thread t                        *)
(***************************************************************************)
\* values of the per-call variables while no call is in progress
NoEvent == [source |-> 0, position |-> 0, valid |-> TRUE]
NoSends == [i \in Slots |-> [fd |-> FREE, ret |-> 0, bytes |-> << >>]]
NoSnap == [i \in Slots |-> FREE]

\* handles held by the occupied slots of a table
TableHandles(fds) == { fds[i] : i \in { j \in Slots : fds[j] >= 0 } }

\* the return value of zmk_ipc_encode_event not tested
BroadcastCall_IgnoreEncodeError(t, valid) ==
    /\ init_pc = "done"
    /\ bpc[t] = "idle"
    /\ b_calls[1] + b_calls[2] < MaxCalls
    /\ LET ev  == [source |-> t, position |-> b_calls[t] + 1, valid |-> valid]
           enc == zmk_ipc_encode_event(ev, zmk_ipc_ZmkEvent_size)
       IN  /\ b_ev' = [b_ev EXCEPT ![t] = ev]
           /\ b_buf' = [b_buf EXCEPT ![t] = enc.buf]
           /\ bpc' = [bpc EXCEPT ![t] = "lock"]
    /\ b_calls' = [b_calls EXCEPT ![t] = @ + 1]
    /\ b_enc' = [b_enc EXCEPT ![t] = 1]
    /\ b_i' = [b_i EXCEPT ![t] = 0]
    /\ b_snap' = [b_snap EXCEPT ![t] = NoSnap]
    /\ b_sent' = [b_sent EXCEPT ![t] = NoSends]
    /\ b_dead' = [b_dead EXCEPT ![t] = TableHandles(client_fds) \cap peerClosed]
    /\ b_rej' = [b_rej EXCEPT ![t] = rejected]
    /\ UNCHANGED << server_fd, client_fds, clients_mutex, init_pc, apc, a_client,
                    backlog, nextConn, peerClosed, closes, rejected, stream >>
    /\ UNCHANGED << ivars, hvars, lock_log >>

\* entry of broadcast_event(ev): the event is encoded once; an encode error
\* returns at once, otherwise the thread goes on to take the mutex
BroadcastCall(t, valid) ==
    /\ init_pc = "done"
    /\ bpc[t] = "idle"
    /\ b_calls[1] + b_calls[2] < MaxCalls
    /\ LET ev  == [source |-> t, position |-> b_calls[t] + 1, valid |-> valid]
           enc == zmk_ipc_encode_event(ev, zmk_ipc_ZmkEvent_size)
       IN  /\ b_ev' = [b_ev EXCEPT ![t] = ev]
           /\ b_buf' = [b_buf EXCEPT ![t] = enc.buf]
           /\ bpc' = [bpc EXCEPT ![t] = IF enc.ret # 0 THEN "ret" ELSE "lock"]
    /\ b_calls' = [b_calls EXCEPT ![t] = @ + 1]
    /\ b_enc' = [b_enc EXCEPT ![t] = 1]
    /\ b_i' = [b_i EXCEPT ![t] = 0]
    /\ b_snap' = [b_snap EXCEPT ![t] = NoSnap]
    /\ b_sent' = [b_sent EXCEPT ![t] = NoSends]
    /\ b_dead' = [b_dead EXCEPT ![t] = TableHandles(client_fds) \cap peerClosed]
    /\ b_rej' = [b_rej EXCEPT ![t] = rejected]
    /\ UNCHANGED << server_fd, client_fds, clients_mutex, init_pc, apc, a_client,
                    backlog, nextConn, peerClosed, closes, rejected, stream >>
    /\ UNCHANGED << ivars, hvars, lock_log >>

\* the lock taken without waiting for the current owner to release it
BroadcastLock_NoExclusion(t) ==
    /\ bpc[t] = "lock"
    /\ clients_mutex' = t
    /\ bpc' = [bpc EXCEPT ![t] = "loop"]
    /\ b_i' = [b_i EXCEPT ![t] = 0]
    /\ b_snap' = [b_snap EXCEPT ![t] = client_fds]
    /\ lock_log' = Append(lock_log, [ev |-> b_ev[t], snap |-> TableHandles(client_fds)])
    /\ UNCHANGED << server_fd, client_fds, init_pc, apc, a_client, b_ev,
                    b_buf, b_calls, backlog, nextConn, peerClosed, closes, rejected, stream,
                    b_sent, b_enc, b_dead, b_rej >>
    /\ UNCHANGED << ivars, hvars >>

\* k_mutex_lock(&clients_mutex, K_FOREVER) in broadcast_event
BroadcastLock(t) ==
    /\ bpc[t] = "lock"
    /\ clients_mutex = NO_OWNER
    /\ clients_mutex' = t
    /\ bpc' = [bpc EXCEPT ![t] = "loop"]
    /\ b_i' = [b_i EXCEPT ![t] = 0]
    /\ b_snap' = [b_snap EXCEPT ![t] = client_fds]
    /\ lock_log' = Append(lock_log, [ev |-> b_ev[t], snap |-> TableHandles(client_fds)])
    /\ UNCHANGED << server_fd, client_fds, init_pc, apc, a_client, b_ev,
                    b_buf, b_calls, backlog, nextConn, peerClosed, closes, rejected, stream,
                    b_sent, b_enc, b_dead, b_rej >>
    /\ UNCHANGED << ivars, hvars >>

\* one iteration on a free slot: continue
BroadcastSkip(t) ==
    /\ bpc[t] = "loop"
    /\ b_i[t] < MAX_CLIENTS
    /\ client_fds[b_i[t]] < 0
    /\ b_i' = [b_i EXCEPT ![t] = @ + 1]
    /\ UNCHANGED << server_fd, client_fds, clients_mutex, init_pc, apc, a_client,
                    bpc, b_ev, b_buf, b_calls, backlog, nextConn,
                    peerClosed, closes, rejected, stream, b_sent, b_enc, b_snap, b_dead, b_rej >>
    /\ UNCHANGED << ivars, hvars, lock_log >>

\* the failing client closed but its slot not reset to -1
BroadcastSend_KeepSlot(t) ==
    /\ bpc[t] = "loop"
    /\ b_i[t] < MAX_CLIENTS
    /\ client_fds[b_i[t]] >= 0
    /\ LET i == b_i[t]
           h == client_fds[i]
       IN  \E r \in zmk_ipc_frame_send(h, b_buf[t]) :
              /\ stream' = [stream EXCEPT ![h] = @ \o r.written]
              /\ b_sent' = [b_sent EXCEPT ![t][i] = [fd |-> h, ret |-> r.ret,
                                                       bytes |-> r.written]]
              /\ IF r.ret # 0
                 THEN closes' = [closes EXCEPT ![h] = @ + 1]
                 ELSE UNCHANGED closes
    /\ b_i' = [b_i EXCEPT ![t] = @ + 1]
    /\ UNCHANGED << server_fd, client_fds, clients_mutex, init_pc, apc, a_client, bpc,
                    b_ev, b_buf, b_calls, backlog, nextConn, peerClosed, b_enc,
                    b_snap, b_dead, b_rej, rejected >>
    /\ UNCHANGED << ivars, hvars, lock_log >>

\* the loop left at the first failing client: break after the eviction
BroadcastSend_BreakOnError(t) ==
    /\ bpc[t] = "loop"
    /\ b_i[t] < MAX_CLIENTS
    /\ client_fds[b_i[t]] >= 0
    /\ LET i == b_i[t]
           h == client_fds[i]
       IN  \E r \in zmk_ipc_frame_send(h, b_buf[t]) :
              /\ stream' = [stream EXCEPT ![h] = @ \o r.written]
              /\ b_sent' = [b_sent EXCEPT ![t][i] = [fd |-> h, ret |-> r.ret,
                                                       bytes |-> r.written]]
              /\ IF r.ret # 0
                 THEN /\ closes' = [closes EXCEPT ![h] = @ + 1]
                      /\ client_fds' = [client_fds EXCEPT ![i] = FREE]
                      /\ b_i' = [b_i EXCEPT ![t] = MAX_CLIENTS]
                 ELSE /\ UNCHANGED << closes, client_fds >>
                      /\ b_i' = [b_i EXCEPT ![t] = @ + 1]
    /\ UNCHANGED rejected
    /\ UNCHANGED << server_fd, clients_mutex, init_pc, apc, a_client, bpc,
                    b_ev, b_buf, b_calls, backlog, nextConn, peerClosed, b_enc,
                    b_snap, b_dead, b_rej >>
    /\ UNCHANGED << ivars, hvars, lock_log >>

\* one iteration on an occupied slot: frame_send, and on any error
\* close(client_fds[i]); client_fds[i] = -1
BroadcastSend(t) ==
    /\ bpc[t] = "loop"
    /\ b_i[t] < MAX_CLIENTS
    /\ client_fds[b_i[t]] >= 0
    /\ LET i == b_i[t]
           h == client_fds[i]
       IN  \E r \in zmk_ipc_frame_send(h, b_buf[t]) :
              /\ stream' = [stream EXCEPT ![h] = @ \o r.written]
              /\ b_sent' = [b_sent EXCEPT ![t][i] = [fd |-> h, ret |-> r.ret,
                                                       bytes |-> r.written]]
              /\ IF r.ret # 0
                 THEN /\ closes' = [closes EXCEPT ![h] = @ + 1]
                      /\ client_fds' = [client_fds EXCEPT ![i] = FREE]
                 ELSE UNCHANGED << closes, client_fds >>
    /\ b_i' = [b_i EXCEPT ![t] = @ + 1]
    /\ UNCHANGED rejected
    /\ UNCHANGED << server_fd, clients_mutex, init_pc, apc, a_client, bpc,
                    b_ev, b_buf, b_calls, backlog, nextConn, peerClosed, b_enc,
                    b_snap, b_dead, b_rej >>
    /\ UNCHANGED << ivars, hvars, lock_log >>

\* the return taken without k_mutex_unlock
BroadcastUnlock_NoRelease(t) ==
    /\ bpc[t] = "loop"
    /\ b_i[t] >= MAX_CLIENTS
    /\ bpc' = [bpc EXCEPT ![t] = "ret"]
    /\ UNCHANGED << server_fd, client_fds, clients_mutex, init_pc, apc, a_client, b_i,
                    b_ev, b_buf, b_calls, backlog, nextConn, peerClosed, closes, rejected,
                    stream, b_sent, b_enc, b_snap, b_dead, b_rej >>
    /\ UNCHANGED << ivars, hvars, lock_log >>

\* loop finished: k_mutex_unlock(&clients_mutex) and return
BroadcastUnlock(t) ==
    /\ bpc[t] = "loop"
    /\ b_i[t] >= MAX_CLIENTS
    /\ clients_mutex' = IF clients_mutex = t THEN NO_OWNER ELSE clients_mutex
    /\ bpc' = [bpc EXCEPT ![t] = "ret"]
    /\ UNCHANGED << server_fd, client_fds, init_pc, apc, a_client, b_i,
                    b_ev, b_buf, b_calls, backlog, nextConn, peerClosed, closes, rejected,
                    stream, b_sent, b_enc, b_snap, b_dead, b_rej >>
    /\ UNCHANGED << ivars, hvars, lock_log >>

\* the caller carries on after broadcast_event has returned
BroadcastReturn(t) ==
    /\ bpc[t] = "ret"
    /\ bpc' = [bpc EXCEPT ![t] = "idle"]
    /\ b_i' = [b_i EXCEPT ![t] = 0]
    /\ b_ev' = [b_ev EXCEPT ![t] = NoEvent]
    /\ b_buf' = [b_buf EXCEPT ![t] = << >>]
    /\ b_sent' = [b_sent EXCEPT ![t] = NoSends]
    /\ b_enc' = [b_enc EXCEPT ![t] = 0]
    /\ b_snap' = [b_snap EXCEPT ![t] = NoSnap]
    /\ b_dead' = [b_dead EXCEPT ![t] = {}]
    /\ b_rej' = [b_rej EXCEPT ![t] = {}]
    /\ UNCHANGED << server_fd, client_fds, clients_mutex, init_pc, apc, a_client,
                    b_calls, backlog, nextConn, peerClosed, closes, rejected, stream >>
    /\ UNCHANGED << ivars, hvars, lock_log >>

(***************************************************************************)
(* Framing codec, ingress direction                                        *)
(***************************************************************************)
\* zmk_ipc_ClientMessage_init_zero
ZeroMsg == [which_payload |-> 0, action |-> 0, which_address |-> 0,
            row |-> 0, col |-> 0, position |-> 0]

\* pb_encode of a ClientMessage in the modelled schema: a KeyEvent is
\* [tag, action] followed by its address arm, if any
EncodeMsg(m) ==
    IF m.which_payload # KEY_EVENT_TAG THEN << >>
    ELSE << KEY_EVENT_TAG, m.action >> \o
         ( IF m.which_address = KEY_POS_TAG THEN << KEY_POS_TAG, m.row, m.col >>
           ELSE IF m.which_address = POSITION_TAG THEN << POSITION_TAG, m.position >>
           ELSE << >> )

\* pb_decode of a ClientMessage body: an empty body is the zero message, a
\* field with an unknown tag below 128 is skipped, anything malformed fails
pb_decode(body) ==
    IF Len(body) = 0 THEN [ok |-> TRUE, msg |-> ZeroMsg]
    ELSE IF body[1] = KEY_EVENT_TAG
    THEN IF Len(body) = 2
         THEN [ok |-> TRUE,
               msg |-> [ZeroMsg EXCEPT !.which_payload = KEY_EVENT_TAG,
                                       !.action = body[2]]]
         ELSE IF Len(body) = 5 /\ body[3] = KEY_POS_TAG
         THEN [ok |-> TRUE,
               msg |-> [ZeroMsg EXCEPT !.which_payload = KEY_EVENT_TAG,
                                       !.action = body[2],
                                       !.which_address = KEY_POS_TAG,
                                       !.row = body[4], !.col = body[5]]]
         ELSE IF Len(body) = 4 /\ body[3] = POSITION_TAG
         THEN [ok |-> TRUE,
               msg |-> [ZeroMsg EXCEPT !.which_payload = KEY_EVENT_TAG,
                                       !.action = body[2],
                                       !.which_address = POSITION_TAG,
                                       !.position = body[4]]]
         ELSE [ok |-> FALSE, msg |-> ZeroMsg]
    ELSE IF Len(body) = 2 /\ body[1] < 128
    THEN [ok |-> TRUE, msg |-> ZeroMsg]
    ELSE [ok |-> FALSE, msg |-> ZeroMsg]

\* the length check written with >=: a frame of exactly the maximum is refused
FrameRecvAfterLen_RejectsMax(len_buf) ==
    LET msg_len == FromBE32(len_buf)
    IN  IF msg_len >= zmk_ipc_ClientMessage_size
        THEN [pc |-> "result", ret |-> -EMSGSIZE, len |-> msg_len]
        ELSE [pc |-> "recv_body", ret |-> 0, len |-> msg_len]

\* zmk_ipc_frame_recv once recv_exact has filled len_buf: the length check
FrameRecvAfterLen(len_buf) ==
    LET msg_len == FromBE32(len_buf)
    IN  IF msg_len > zmk_ipc_ClientMessage_size
        THEN [pc |-> "result", ret |-> -EMSGSIZE, len |-> msg_len]
        ELSE [pc |-> "recv_body", ret |-> 0, len |-> msg_len]

\* zmk_ipc_frame_recv once recv_exact has filled body: the nanopb decode
FrameRecvAfterBody(body) ==
    LET d == pb_decode(body)
    IN  IF d.ok THEN [ret |-> 0, msg |-> d.msg]
        ELSE [ret |-> -EBADMSG, msg |-> ZeroMsg]

(***************************************************************************)
(* Ingress: dispatch_message                                               *)
(***************************************************************************)
\* columns == 0 not tested: the position is used as the row
dispatch_message_ZeroColumnsAsOne(msg, columns) ==
    IF msg.which_payload # KEY_EVENT_TAG
    THEN [drop |-> TRUE, row |-> 0, col |-> 0, pressed |-> FALSE]
    ELSE IF msg.action \notin {ACTION_PRESS, ACTION_RELEASE}
    THEN [drop |-> TRUE, row |-> 0, col |-> 0, pressed |-> FALSE]
    ELSE IF msg.which_address = KEY_POS_TAG
    THEN [drop |-> FALSE, row |-> msg.row, col |-> msg.col,
          pressed |-> (msg.action = ACTION_PRESS)]
    ELSE IF msg.which_address = POSITION_TAG
    THEN IF columns = 0
         THEN [drop |-> FALSE, row |-> msg.position, col |-> 0,
               pressed |-> (msg.action = ACTION_PRESS)]
         ELSE [drop |-> FALSE, row |-> msg.position \div columns,
               col |-> msg.position % columns,
               pressed |-> (msg.action = ACTION_PRESS)]
    ELSE [drop |-> TRUE, row |-> 0, col |-> 0, pressed |-> FALSE]

\* row and col of a Position address exchanged
dispatch_message_SwappedDivMod(msg, columns) ==
    IF msg.which_payload # KEY_EVENT_TAG
    THEN [drop |-> TRUE, row |-> 0, col |-> 0, pressed |-> FALSE]
    ELSE IF msg.action \notin {ACTION_PRESS, ACTION_RELEASE}
    THEN [drop |-> TRUE, row |-> 0, col |-> 0, pressed |-> FALSE]
    ELSE IF msg.which_address = KEY_POS_TAG
    THEN [drop |-> FALSE, row |-> msg.row, col |-> msg.col,
          pressed |-> (msg.action = ACTION_PRESS)]
    ELSE IF msg.which_address = POSITION_TAG
    THEN IF columns = 0
         THEN [drop |-> TRUE, row |-> 0, col |-> 0, pressed |-> FALSE]
         ELSE [drop |-> FALSE, row |-> msg.position % columns,
               col |-> msg.position \div columns,
               pressed |-> (msg.action = ACTION_PRESS)]
    ELSE [drop |-> TRUE, row |-> 0, col |-> 0, pressed |-> FALSE]

\* the default arm of the action switch left out: any other action is a release
dispatch_message_UnknownActionAsRelease(msg, columns) ==
    IF msg.which_payload # KEY_EVENT_TAG
    THEN [drop |-> TRUE, row |-> 0, col |-> 0, pressed |-> FALSE]
    ELSE IF msg.which_address = KEY_POS_TAG
    THEN [drop |-> FALSE, row |-> msg.row, col |-> msg.col,
          pressed |-> (msg.action = ACTION_PRESS)]
    ELSE IF msg.which_address = POSITION_TAG
    THEN IF columns = 0
         THEN [drop |-> TRUE, row |-> 0, col |-> 0, pressed |-> FALSE]
         ELSE [drop |-> FALSE, row |-> msg.position \div columns,
               col |-> msg.position % columns,
               pressed |-> (msg.action = ACTION_PRESS)]
    ELSE [drop |-> TRUE, row |-> 0, col |-> 0, pressed |-> FALSE]

\* dispatch_message up to the enabled/callback test: either the message is
\* dropped, or (row, col, pressed) is computed
dispatch_message(msg, columns) ==
    IF msg.which_payload # KEY_EVENT_TAG
    THEN [drop |-> TRUE, row |-> 0, col |-> 0, pressed |-> FALSE]
    ELSE IF msg.action \notin {ACTION_PRESS, ACTION_RELEASE}
    THEN [drop |-> TRUE, row |-> 0, col |-> 0, pressed |-> FALSE]
    ELSE IF msg.which_address = KEY_POS_TAG
    THEN [drop |-> FALSE, row |-> msg.row, col |-> msg.col,
          pressed |-> (msg.action = ACTION_PRESS)]
    ELSE IF msg.which_address = POSITION_TAG
    THEN IF columns = 0
         THEN [drop |-> TRUE, row |-> 0, col |-> 0, pressed |-> FALSE]
         ELSE [drop |-> FALSE, row |-> msg.position \div columns,
               col |-> msg.position % columns,
               pressed |-> (msg.action = ACTION_PRESS)]
    ELSE [drop |-> TRUE, row |-> 0, col |-> 0, pressed |-> FALSE]

(***************************************************************************)
(* Ingress: initialisation and driver API (host thread)                    *)
(***************************************************************************)
\* kscan_ipc_init: runtime state reset, socket/bind/listen, reader thread
\* created only when all three succeeded
kscan_ipc_init ==
    /\ k_init_pc = "boot"
    /\ \E ok \in BOOLEAN :
          /\ data' = [callback |-> NULL, client_fd |-> -1, enabled |-> FALSE,
                      server_fd |-> IF ok THEN LISTEN_FD ELSE -1]
          /\ rpc' = IF ok THEN "accept" ELSE "none"
    /\ k_init_pc' = "done"
    /\ UNCHANGED << cfg, r_buf, r_len, r_ret, r_msg, r_ev, k_backlog, k_next,
                    k_state, k_peerClosed, wire, k_frames, k_sent, rlog, k_why, k_pend >>
    /\ UNCHANGED << evars, hvars, api_ret >>

\* the null test left out: the callback is stored whatever it is
kscan_ipc_configure_StoresNull(callback) ==
    /\ k_init_pc = "done"
    /\ data' = [data EXCEPT !.callback = callback]
    /\ api_ret' = IF callback = NULL THEN -EINVAL ELSE 0
    /\ UNCHANGED << cfg, k_init_pc, rpc, r_buf, r_len, r_ret, r_msg, r_ev, k_backlog,
                    k_next, k_state, k_peerClosed, wire, k_frames, k_sent, rlog, k_why, k_pend >>
    /\ UNCHANGED << evars, hvars >>

\* kscan_ipc_configure: a null callback is refused with -EINVAL
kscan_ipc_configure(callback) ==
    /\ k_init_pc = "done"
    /\ data' = IF callback = NULL THEN data ELSE [data EXCEPT !.callback = callback]
    /\ api_ret' = IF callback = NULL THEN -EINVAL ELSE 0
    /\ UNCHANGED << cfg, k_init_pc, rpc, r_buf, r_len, r_ret, r_msg, r_ev, k_backlog,
                    k_next, k_state, k_peerClosed, wire, k_frames, k_sent, rlog, k_why, k_pend >>
    /\ UNCHANGED << evars, hvars >>

\* kscan_ipc_enable_callback
kscan_ipc_enable_callback ==
    /\ k_init_pc = "done"
    /\ data' = [data EXCEPT !.enabled = TRUE]
    /\ api_ret' = 0
    /\ UNCHANGED << cfg, k_init_pc, rpc, r_buf, r_len, r_ret, r_msg, r_ev, k_backlog,
                    k_next, k_state, k_peerClosed, wire, k_frames, k_sent, rlog, k_why, k_pend >>
    /\ UNCHANGED << evars, hvars >>

\* kscan_ipc_disable_callback
kscan_ipc_disable_callback ==
    /\ k_init_pc = "done"
    /\ data' = [data EXCEPT !.enabled = FALSE]
    /\ api_ret' = 0
    /\ UNCHANGED << cfg, k_init_pc, rpc, r_buf, r_len, r_ret, r_msg, r_ev, k_backlog,
                    k_next, k_state, k_peerClosed, wire, k_frames, k_sent, rlog, k_why, k_pend >>
    /\ UNCHANGED << evars, hvars >>

(***************************************************************************)
(* Ingress: environment (injector programs)                                *)
(***************************************************************************)
KeyPosPress == [ZeroMsg EXCEPT !.which_payload = KEY_EVENT_TAG, !.action = ACTION_PRESS,
                               !.which_address = KEY_POS_TAG, !.row = 1, !.col = 3]
PositionRelease == [ZeroMsg EXCEPT !.which_payload = KEY_EVENT_TAG,
                                   !.action = ACTION_RELEASE,
                                   !.which_address = POSITION_TAG, !.position = 25]
\* a body the schema rejects
GarbageBody == << 255, 255 >>
\* a length prefix one above the maximum, followed by the first body byte
OversizeBytes == BE32(zmk_ipc_ClientMessage_size + 1) \o << 7 >>

\* the byte strings an injector writes in one go
PeerFrames ==
    { Frame(EncodeMsg(KeyPosPress)), Frame(EncodeMsg(PositionRelease)),
      Frame(GarbageBody), OversizeBytes }

\* an injector connects: the kernel queues the connection
KPeerConnect ==
    /\ data.server_fd = LISTEN_FD
    /\ k_init_pc = "done"
    /\ k_next <= MaxPeers
    /\ k_backlog' = Append(k_backlog, k_next)
    /\ k_state' = [k_state EXCEPT ![k_next] = "queued"]
    /\ k_next' = k_next + 1
    /\ UNCHANGED << cfg, data, k_init_pc, rpc, r_buf, r_len, r_ret, r_msg, r_ev,
                    k_peerClosed, wire, k_frames, k_sent, rlog, k_why, k_pend >>
    /\ UNCHANGED << evars, hvars, api_ret >>

\* an injector writes one frame on its connection
KPeerSend(p, f) ==
    /\ k_state[p] \in {"queued", "open"}
    /\ p \notin k_peerClosed
    /\ k_pend[p] = << >>
    /\ k_frames < MaxFrames
    /\ wire' = [wire EXCEPT ![p] = @ \o f]
    /\ k_sent' = [k_sent EXCEPT ![p] = Append(@, f)]
    /\ k_frames' = k_frames + 1
    /\ UNCHANGED << cfg, data, k_init_pc, rpc, r_buf, r_len, r_ret, r_msg, r_ev,
                    k_backlog, k_next, k_state, k_peerClosed, rlog, k_why, k_pend >>
    /\ UNCHANGED << evars, hvars, api_ret >>

\* an injector starts a frame and gets only its first n bytes written
KPeerSendPart(p, f, n) ==
    /\ k_state[p] \in {"queued", "open"}
    /\ p \notin k_peerClosed
    /\ k_pend[p] = << >>
    /\ k_frames < MaxFrames
    /\ n \in 1 .. (Len(f) - 1)
    /\ wire' = [wire EXCEPT ![p] = @ \o SubSeq(f, 1, n)]
    /\ k_pend' = [k_pend EXCEPT ![p] = SubSeq(f, n + 1, Len(f))]
    /\ k_sent' = [k_sent EXCEPT ![p] = Append(@, f)]
    /\ k_frames' = k_frames + 1
    /\ UNCHANGED << cfg, data, k_init_pc, rpc, r_buf, r_len, r_ret, r_msg, r_ev,
                    k_backlog, k_next, k_state, k_peerClosed, rlog, k_why >>
    /\ UNCHANGED << evars, hvars, api_ret >>

\* an injector writes the next n bytes of the frame it has started
KPeerSendRest(p, n) ==
    /\ k_state[p] \in {"queued", "open"}
    /\ p \notin k_peerClosed
    /\ n \in 1 .. Len(k_pend[p])
    /\ wire' = [wire EXCEPT ![p] = @ \o SubSeq(k_pend[p], 1, n)]
    /\ k_pend' = [k_pend EXCEPT ![p] = SubSeq(@, n + 1, Len(@))]
    /\ UNCHANGED << cfg, data, k_init_pc, rpc, r_buf, r_len, r_ret, r_msg, r_ev,
                    k_backlog, k_next, k_state, k_peerClosed, k_frames, k_sent,
                    rlog, k_why >>
    /\ UNCHANGED << evars, hvars, api_ret >>

\* an injector closes its end of a connection the server still has open
KPeerClose(p) ==
    /\ k_state[p] \in {"queued", "open"}
    /\ p \notin k_peerClosed
    /\ k_peerClosed' = k_peerClosed \cup {p}
    /\ UNCHANGED << cfg, data, k_init_pc, rpc, r_buf, r_len, r_ret, r_msg, r_ev,
                    k_backlog, k_next, k_state, wire, k_frames, k_sent, rlog, k_why, k_pend >>
    /\ UNCHANGED << evars, hvars, api_ret >>

(***************************************************************************)
(* Ingress: reader thread, kscan_ipc_read_thread_func                      *)
(***************************************************************************)
NoEv == [row |-> 0, col |-> 0, pressed |-> FALSE]

\* accept() called on every iteration, whether or not a peer is held
ReaderLoopTop_AlwaysAccept(client_fd) == "accept"

\* top of the for (;;) loop: accept only when there is no peer
ReaderLoopTop(client_fd) == IF client_fd < 0 THEN "accept" ELSE "recv_len"

\* accept() returns a connection: data->client_fd = client
ReaderAcceptOk ==
    /\ rpc = "accept"
    /\ k_backlog # << >>
    /\ data' = [data EXCEPT !.client_fd = Head(k_backlog)]
    /\ k_state' = [k_state EXCEPT ![Head(k_backlog)] = "open"]
    /\ k_backlog' = Tail(k_backlog)
    /\ rpc' = "recv_len"
    /\ UNCHANGED << cfg, k_init_pc, r_buf, r_len, r_ret, r_msg, r_ev, k_next,
                    k_peerClosed, wire, k_frames, k_sent, rlog, k_why, k_pend >>
    /\ UNCHANGED << evars, hvars, api_ret >>

\* the thread function returning on an accept() failure
ReaderAcceptFail_ThreadExits(e) ==
    /\ rpc = "accept"
    /\ rpc' = "none"
    /\ UNCHANGED << cfg, data, k_init_pc, r_buf, r_len, r_ret, r_msg, r_ev, k_backlog,
                    k_next, k_state, k_peerClosed, wire, k_frames, k_sent, rlog, k_why, k_pend >>
    /\ UNCHANGED << evars, hvars, api_ret >>

\* accept() fails: EINTR retries at once, anything else sleeps 100 ms
ReaderAcceptFail(e) ==
    /\ rpc = "accept"
    /\ rpc' = IF e = EINTR THEN ReaderLoopTop(data.client_fd) ELSE "sleep"
    /\ UNCHANGED << cfg, data, k_init_pc, r_buf, r_len, r_ret, r_msg, r_ev, k_backlog,
                    k_next, k_state, k_peerClosed, wire, k_frames, k_sent, rlog, k_why, k_pend >>
    /\ UNCHANGED << evars, hvars, api_ret >>

\* k_sleep(K_MSEC(100)) returns
ReaderWake ==
    /\ rpc = "sleep"
    /\ rpc' = ReaderLoopTop(data.client_fd)
    /\ UNCHANGED << cfg, data, k_init_pc, r_buf, r_len, r_ret, r_msg, r_ev, k_backlog,
                    k_next, k_state, k_peerClosed, wire, k_frames, k_sent, rlog, k_why, k_pend >>
    /\ UNCHANGED << evars, hvars, api_ret >>

\* one recv() of recv_exact returning n > 0 bytes, and what zmk_ipc_frame_recv
\* does once the buffer is full
ReaderRecv(n) ==
    /\ rpc \in {"recv_len", "recv_body"}
    /\ LET fd   == data.client_fd
           want == IF rpc = "recv_len" THEN 4 ELSE r_len
           got  == r_buf \o SubSeq(wire[fd], 1, n)
       IN  /\ n \in 1 .. Min(Len(wire[fd]), want - Len(r_buf))
           /\ wire' = [wire EXCEPT ![fd] = SubSeq(@, n + 1, Len(@))]
           /\ IF Len(got) < want
              THEN /\ r_buf' = got
                   /\ UNCHANGED << rpc, r_len, r_ret, r_msg >>
              ELSE IF rpc = "recv_len" /\ FrameRecvAfterLen(got).pc = "recv_body"
                                       /\ FrameRecvAfterLen(got).len > 0
              THEN /\ rpc' = "recv_body"
                   /\ r_len' = FrameRecvAfterLen(got).len
                   /\ r_buf' = << >>
                   /\ UNCHANGED << r_ret, r_msg >>
              ELSE IF rpc = "recv_len" /\ FrameRecvAfterLen(got).pc = "result"
              THEN /\ rpc' = "result"
                   /\ r_ret' = FrameRecvAfterLen(got).ret
                   /\ r_msg' = ZeroMsg
                   /\ r_len' = 0
                   /\ r_buf' = << >>
              ELSE LET body == IF rpc = "recv_len" THEN << >> ELSE got
                   IN  /\ rpc' = "result"
                       /\ r_ret' = FrameRecvAfterBody(body).ret
                       /\ r_msg' = FrameRecvAfterBody(body).msg
                       /\ r_len' = 0
                       /\ r_buf' = << >>
    /\ UNCHANGED << cfg, data, k_init_pc, r_ev, k_backlog, k_next, k_state,
                    k_peerClosed, k_frames, k_sent, rlog, k_why, k_pend >>
    /\ UNCHANGED << evars, hvars, api_ret >>

\* recv() == 0 reported like any other failure
ReaderRecvEof_ReportsEio ==
    /\ rpc \in {"recv_len", "recv_body"}
    /\ wire[data.client_fd] = << >>
    /\ data.client_fd \in k_peerClosed
    /\ rpc' = "result"
    /\ r_ret' = -EIO
    /\ r_buf' = << >>
    /\ r_len' = 0
    /\ UNCHANGED << cfg, data, k_init_pc, r_msg, r_ev, k_backlog, k_next, k_state,
                    k_peerClosed, wire, k_frames, k_sent, rlog, k_why, k_pend >>
    /\ UNCHANGED << evars, hvars, api_ret >>

\* the bytes received so far kept for the next call of zmk_ipc_frame_recv
ReaderRecvEof_KeepsPartial ==
    /\ rpc \in {"recv_len", "recv_body"}
    /\ wire[data.client_fd] = << >>
    /\ data.client_fd \in k_peerClosed
    /\ rpc' = "result"
    /\ r_ret' = -ECONNRESET
    /\ UNCHANGED << cfg, data, k_init_pc, r_msg, r_ev, k_backlog, k_next, k_state,
                    k_peerClosed, wire, k_frames, k_sent, rlog, k_why, k_pend,
                    r_buf, r_len >>
    /\ UNCHANGED << evars, hvars, api_ret >>

\* recv() returns 0: recv_exact returns -ECONNRESET
ReaderRecvEof ==
    /\ rpc \in {"recv_len", "recv_body"}
    /\ wire[data.client_fd] = << >>
    /\ data.client_fd \in k_peerClosed
    /\ rpc' = "result"
    /\ r_ret' = -ECONNRESET
    /\ r_buf' = << >>
    /\ r_len' = 0
    /\ UNCHANGED << cfg, data, k_init_pc, r_msg, r_ev, k_backlog, k_next, k_state,
                    k_peerClosed, wire, k_frames, k_sent, rlog, k_why, k_pend >>
    /\ UNCHANGED << evars, hvars, api_ret >>

\* recv() returns -1: recv_exact returns -errno. A stream socket hands over
\* queued bytes before it reports an interruption or a pending error, so the
\* call fails only when nothing is queued
ReaderRecvErr(e) ==
    /\ rpc \in {"recv_len", "recv_body"}
    /\ wire[data.client_fd] = << >>
    /\ rpc' = "result"
    /\ r_ret' = -e
    /\ r_buf' = << >>
    /\ r_len' = 0
    /\ UNCHANGED << cfg, data, k_init_pc, r_msg, r_ev, k_backlog, k_next, k_state,
                    k_peerClosed, wire, k_frames, k_sent, rlog, k_why, k_pend >>
    /\ UNCHANGED << evars, hvars, api_ret >>

\* -EBADMSG falling into the final else: the peer is closed
ResultKind_DecodeIsFatal(ret) ==
    IF ret = 0 THEN "dispatch"
    ELSE IF ret = -ECONNRESET \/ ret = -EPIPE THEN "peer_closed"
    ELSE IF ret = -EMSGSIZE THEN "too_large"
    ELSE "io_error"

\* -EMSGSIZE handled like a decode error: the peer is kept
ResultKind_OversizeSkipped(ret) ==
    IF ret = 0 THEN "dispatch"
    ELSE IF ret = -ECONNRESET \/ ret = -EPIPE THEN "peer_closed"
    ELSE IF ret = -EMSGSIZE \/ ret = -EBADMSG THEN "decode_error"
    ELSE "io_error"

\* what the reader does with the return value of zmk_ipc_frame_recv
ResultKind(ret) ==
    IF ret = 0 THEN "dispatch"
    ELSE IF ret = -ECONNRESET \/ ret = -EPIPE THEN "peer_closed"
    ELSE IF ret = -EMSGSIZE THEN "too_large"
    ELSE IF ret = -EBADMSG THEN "decode_error"
    ELSE "io_error"

\* the if / else-if chain on ret: dispatch, keep the peer, or close it
ReaderResult ==
    /\ rpc = "result"
    /\ LET kind == ResultKind(r_ret)
           fd   == data.client_fd
           d    == dispatch_message(r_msg, cfg.columns)
       IN  IF kind = "dispatch"
           THEN /\ IF d.drop
                   THEN /\ rpc' = ReaderLoopTop(fd)
                        /\ r_ev' = NoEv
                        /\ rlog' = [rlog EXCEPT ![fd] =
                                      Append(@, [kind |-> "dropped", ev |-> NoEv,
                                                 en |-> FALSE])]
                   ELSE /\ rpc' = "gate"
                        /\ r_ev' = [row |-> d.row, col |-> d.col, pressed |-> d.pressed]
                        /\ rlog' = rlog
                /\ UNCHANGED << data, k_state, wire, k_sent, k_why, k_pend >>
           ELSE IF kind = "decode_error"
           THEN /\ rpc' = ReaderLoopTop(fd)
                /\ rlog' = [rlog EXCEPT ![fd] =
                              Append(@, [kind |-> kind, ev |-> NoEv, en |-> FALSE])]
                /\ UNCHANGED << data, k_state, wire, r_ev, k_sent, k_why, k_pend >>
           ELSE /\ k_state' = [k_state EXCEPT ![fd] = "closed"]
                /\ k_why' = [k_why EXCEPT ![fd] = kind]
                /\ k_pend' = [k_pend EXCEPT ![fd] = << >>]
                /\ wire' = [wire EXCEPT ![fd] = << >>]
                /\ rlog' = [rlog EXCEPT ![fd] = << >>]
                /\ k_sent' = [k_sent EXCEPT ![fd] = << >>]
                /\ data' = [data EXCEPT !.client_fd = -1]
                /\ rpc' = ReaderLoopTop(-1)
                /\ UNCHANGED r_ev
    /\ r_ret' = 0
    /\ r_msg' = ZeroMsg
    /\ UNCHANGED << cfg, k_init_pc, r_buf, r_len, k_backlog, k_next, k_peerClosed,
                    k_frames >>
    /\ UNCHANGED << evars, hvars, api_ret >>

\* the test reduced to if (data->callback)
ReaderGate_NoEnableCheck ==
    /\ rpc = "gate"
    /\ IF data.callback # NULL
       THEN /\ rpc' = "call"
            /\ UNCHANGED << r_ev, rlog >>
       ELSE /\ rpc' = ReaderLoopTop(data.client_fd)
            /\ r_ev' = NoEv
            /\ rlog' = [rlog EXCEPT ![data.client_fd] =
                          Append(@, [kind |-> "gated", ev |-> r_ev, en |-> FALSE])]
    /\ UNCHANGED << cfg, data, k_init_pc, r_buf, r_len, r_ret, r_msg, k_backlog,
                    k_next, k_state, k_peerClosed, wire, k_frames, k_sent, k_why, k_pend >>
    /\ UNCHANGED << evars, hvars, api_ret >>

\* dispatch_message: if (data->enabled && data->callback)
ReaderGate ==
    /\ rpc = "gate"
    /\ IF data.enabled /\ data.callback # NULL
       THEN /\ rpc' = "call"
            /\ UNCHANGED << r_ev, rlog >>
       ELSE /\ rpc' = ReaderLoopTop(data.client_fd)
            /\ r_ev' = NoEv
            /\ rlog' = [rlog EXCEPT ![data.client_fd] =
                          Append(@, [kind |-> "gated", ev |-> r_ev, en |-> FALSE])]
    /\ UNCHANGED << cfg, data, k_init_pc, r_buf, r_len, r_ret, r_msg, k_backlog,
                    k_next, k_state, k_peerClosed, wire, k_frames, k_sent, k_why, k_pend >>
    /\ UNCHANGED << evars, hvars, api_ret >>

\* dispatch_message: data->callback(dev, row, col, pressed)
ReaderCall ==
    /\ rpc = "call"
    /\ rlog' = [rlog EXCEPT ![data.client_fd] =
                  Append(@, [kind |-> "called", ev |-> r_ev, en |-> data.enabled])]
    /\ r_ev' = NoEv
    /\ rpc' = ReaderLoopTop(data.client_fd)
    /\ UNCHANGED << cfg, data, k_init_pc, r_buf, r_len, r_ret, r_msg, k_backlog,
                    k_next, k_state, k_peerClosed, wire, k_frames, k_sent, k_why, k_pend >>
    /\ UNCHANGED << evars, hvars, api_ret >>

(***************************************************************************)
(* HID adapters: endpoint_from_str                                         *)
(***************************************************************************)
\* enum TransportType of the Endpoint sub-message
TRANSPORT_NONE == 0
TRANSPORT_USB == 1
TRANSPORT_BLE == 2

\* 32-bit values are kept as two 16-bit halves, hi * 2^16 + lo
HALF == 65536
U32(hi, lo) == [hi |-> hi, lo |-> lo]
\* INT_MAX and the bit pattern of INT_MIN
INT_MAX_BITS == U32(32767, 65535)
INT_MIN_BITS == U32(32768, 0)

\* zmk_ipc_Endpoint_init_zero
ZeroEndpoint == [transport |-> TRANSPORT_NONE, ble_profile_idx |-> U32(0, 0)]

\* the characters isdigit() accepts, with their values
DigitVal == [c \in {"0", "1", "2", "3", "4", "5", "6", "7", "8", "9"} |->
               CASE c = "0" -> 0 [] c = "1" -> 1 [] c = "2" -> 2 [] c = "3" -> 3
                 [] c = "4" -> 4 [] c = "5" -> 5 [] c = "6" -> 6 [] c = "7" -> 7
                 [] c = "8" -> 8 [] c = "9" -> 9]
IsDigit(c) == c \in DOMAIN DigitVal

\* strncmp(s, lit, strlen(lit)) == 0 on NUL-terminated strings: s is at least
\* as long as lit and starts with it
StartsWith(s, lit) == Len(s) >= Len(lit) /\ SubSeq(s, 1, Len(lit)) = lit

RECURSIVE DigitRun(_)
\* the longest leading run of digits of s
DigitRun(s) ==
    IF s # << >> /\ IsDigit(Head(s)) THEN << Head(s) >> \o DigitRun(Tail(s)) ELSE << >>

\* acc * 10 + d on 32 bits; over records that the true value left 32 bits
Mul10Add(acc, d) ==
    LET lo == acc.lo * 10 + d
        hi == acc.hi * 10 + (lo \div HALF)
    IN  [hi |-> hi % HALF, lo |-> lo % HALF, over |-> acc.over \/ hi >= HALF]

RECURSIVE DecimalValue(_)
\* the number a run of digits denotes in base ten (0 for the empty run)
DecimalValue(ds) ==
    IF ds = << >> THEN [hi |-> 0, lo |-> 0, over |-> FALSE]
    ELSE Mul10Add(DecimalValue(SubSeq(ds, 1, Len(ds) - 1)), DigitVal[ds[Len(ds)]])

RECURSIVE SkipSpace(_)
\* atoi skips leading white space
SkipSpace(s) == IF s # << >> /\ Head(s) = " " THEN SkipSpace(Tail(s)) ELSE s

\* the 32-bit pattern of -x
Neg32(x) ==
    IF x.lo = 0 THEN U32((HALF - x.hi) % HALF, 0)
    ELSE U32(HALF - 1 - x.hi, HALF - x.lo)

\* (uint32_t)atoi(s): white space, an optional sign, then the leading digits;
\* the 32-bit patterns of the values atoi can return.  A value that does not
\* fit an int is undefined behaviour: the C library either wraps it to 32
\* bits or clamps it to INT_MAX / INT_MIN
atoi(s) ==
    LET t    == SkipSpace(s)
        neg  == t # << >> /\ Head(t) = "-"
        u    == IF t # << >> /\ Head(t) \in {"-", "+"} THEN Tail(t) ELSE t
        mag  == DecimalValue(DigitRun(u))
        bits == U32(mag.hi, mag.lo)
        fits == /\ ~mag.over
                /\ \/ mag.hi < HALF \div 2
                   \/ neg /\ bits = INT_MIN_BITS
    IN  IF fits THEN { IF neg THEN Neg32(bits) ELSE bits }
        ELSE { IF neg THEN Neg32(bits) ELSE bits,
               IF neg THEN INT_MIN_BITS ELSE INT_MAX_BITS }

USB_LIT == << "U", "S", "B" >>
BLE_LIT == << "B", "L", "E", ":" >>

\* endpoint_from_str: the endpoints it can return for transport_str
endpoint_from_str(transport_str) ==
    IF StartsWith(transport_str, USB_LIT)
    THEN { [ZeroEndpoint EXCEPT !.transport = TRANSPORT_USB] }
    ELSE IF StartsWith(transport_str, BLE_LIT)
    THEN { [transport |-> TRANSPORT_BLE, ble_profile_idx |-> n] :
             n \in atoi(SubSeq(transport_str, 5, Len(transport_str))) }
    ELSE { [ZeroEndpoint EXCEPT !.transport = TRANSPORT_NONE] }

\* no HID report is being notified
HidIdle ==
    /\ h_str = << >>
    /\ h_ep = ZeroEndpoint
    /\ h_pc = "idle"

\* kb.endpoint = endpoint_from_str(transport_str) in a notify function
EndpointFromStr ==
    /\ h_pc = "call"
    /\ \E ep \in endpoint_from_str(h_str) : h_ep' = ep
    /\ h_pc' = "done"
    /\ UNCHANGED << h_str, evars, ivars >>

(***************************************************************************)
(* Egress specification                                                    *)
(***************************************************************************)

\* static storage before ipc_observer_init: client_fds[] is zero-filled,
\* server_fd is -1, the mutex is unlocked, no thread has started
InitEgress ==
    /\ server_fd = FREE
    /\ client_fds = [i \in Slots |-> 0]
    /\ clients_mutex = NO_OWNER
    /\ init_pc = "boot"
    /\ apc = "accept"
    /\ a_client = -1
    /\ bpc = [t \in Broadcasters |-> "idle"]
    /\ b_i = [t \in Broadcasters |-> 0]
    /\ b_ev = [t \in Broadcasters |-> NoEvent]
    /\ b_buf = [t \in Broadcasters |-> << >>]
    /\ b_calls = [t \in Broadcasters |-> 0]
    /\ backlog = << >>
    /\ nextConn = 1
    /\ peerClosed = {}
    /\ closes = [h \in Handles |-> 0]
    /\ stream = [h \in Handles |-> << >>]
    /\ b_sent = [t \in Broadcasters |-> NoSends]
    /\ b_enc = [t \in Broadcasters |-> 0]
    /\ b_snap = [t \in Broadcasters |-> NoSnap]
    /\ b_dead = [t \in Broadcasters |-> {}]
    /\ rejected = {}
    /\ b_rej = [t \in Broadcasters |-> {}]
    /\ lock_log = << >>

NextEgress ==
    \/ ipc_observer_init
    \/ PeerConnect
    \/ \E h \in Handles : PeerClose(h)
    \/ AcceptOk
    \/ \E e \in {EINTR, EMFILE} : AcceptFail(e)
    \/ AcceptWake
    \/ AcceptLock
    \/ AcceptInsert
    \/ AcceptReject
    \/ \E t \in Broadcasters : \E valid \in BOOLEAN : BroadcastCall(t, valid)
    \/ \E t \in Broadcasters : BroadcastLock(t)
    \/ \E t \in Broadcasters : BroadcastSkip(t)
    \/ \E t \in Broadcasters : BroadcastSend(t)
    \/ \E t \in Broadcasters : BroadcastUnlock(t)
    \/ \E t \in Broadcasters : BroadcastReturn(t)

(***************************************************************************)
(* Ingress specification                                                   *)
(***************************************************************************)
PeerHandles == 1 .. MaxPeers

\* the matrix widths an instance may be configured with
ColumnChoices == {0, 12}

\* static storage before kscan_ipc_init: struct kscan_ipc_data is zero-filled
\* and the reader thread does not exist
IngressBoot ==
    /\ data = [callback |-> NULL, client_fd |-> 0, enabled |-> FALSE, server_fd |-> 0]
    /\ k_init_pc = "boot"
    /\ rpc = "none"
    /\ r_buf = << >>
    /\ r_len = 0
    /\ r_ret = 0
    /\ r_msg = ZeroMsg
    /\ r_ev = NoEv
    /\ k_backlog = << >>
    /\ k_next = 1
    /\ k_state = [p \in PeerHandles |-> "none"]
    /\ k_peerClosed = {}
    /\ wire = [p \in PeerHandles |-> << >>]
    /\ k_frames = 0
    /\ k_sent = [p \in PeerHandles |-> << >>]
    /\ rlog = [p \in PeerHandles |-> << >>]
    /\ k_why = [p \in PeerHandles |-> ""]
    /\ k_pend = [p \in PeerHandles |-> << >>]
    /\ api_ret = 0

InitIngress ==
    /\ \E c \in ColumnChoices : cfg = [rows |-> 4, columns |-> c]
    /\ IngressBoot

NextIngress ==
    \/ kscan_ipc_init
    \/ \E cb \in {NULL, HOST_CALLBACK} : kscan_ipc_configure(cb)
    \/ kscan_ipc_enable_callback
    \/ kscan_ipc_disable_callback
    \/ KPeerConnect
    \/ \E p \in PeerHandles : \E f \in PeerFrames : KPeerSend(p, f)
    \/ \E p \in PeerHandles : KPeerClose(p)
    \/ ReaderAcceptOk
    \/ \E e \in {EINTR, EMFILE} : ReaderAcceptFail(e)
    \/ ReaderWake
    \/ \E n \in 1 .. (4 + zmk_ipc_ClientMessage_size) : ReaderRecv(n)
    \/ ReaderRecvEof
    \/ \E e \in {EINTR, EIO} : ReaderRecvErr(e)
    \/ ReaderResult
    \/ ReaderGate
    \/ ReaderCall

(***************************************************************************)
(* Specifications: each endpoint runs while the other one is left at rest  *)
(***************************************************************************)
Init ==
    /\ InitEgress
    /\ cfg = [rows |-> 4, columns |-> 12]
    /\ IngressBoot
    /\ HidIdle

Next == NextEgress

Spec == Init /\ [][Next]_vars

(***************************************************************************)
(* Egress under fair scheduling: a thread that can run its next step       *)
(* eventually does, and k_mutex_lock returns to a waiting accept thread    *)
(* once the mutex has been released (k_mutex_unlock hands the mutex to a   *)
(* waiter).  Calls of broadcast_event and failures of accept() are left to *)
(* the environment.                                                        *)
(***************************************************************************)
\* the step of the accept thread that needs nothing from outside the thread
AcceptThreadStep == AcceptInsert \/ AcceptReject \/ AcceptWake

\* the step of a broadcast_event call that is inside its loop
BroadcastLoopStep ==
    \E t \in Broadcasters : BroadcastSkip(t) \/ BroadcastSend(t) \/ BroadcastUnlock(t)

EgressFairness ==
    /\ SF_vars(AcceptLock)
    /\ WF_vars(AcceptThreadStep)
    /\ WF_vars(BroadcastLoopStep)

SpecEgressFair == Init /\ [][Next]_vars /\ EgressFairness

InitI == InitEgress /\ InitIngress /\ HidIdle

NextI == NextIngress

SpecIngress == InitI /\ [][NextI]_vars

(***************************************************************************)
(* What an observer reads from its connection                              *)
(***************************************************************************)
\* the observer's loop: read 4 bytes, unpack the length, read that many
\* bytes; `frames` are the payloads read whole, `rest` the bytes left over
(***************************************************************************)
(* Ingress under fair scheduling: the host configures and enables once,    *)
(* the reader thread is scheduled whenever it can run, a sleep ends, a     *)
(* recv on a socket with queued bytes or a closed peer returns, and an     *)
(* accept on a listening socket with a queued connection, retried often    *)
(* enough, takes it                                                        *)
(***************************************************************************)
InitFair ==
    /\ InitEgress
    /\ cfg = [rows |-> 4, columns |-> 12]
    /\ IngressBoot
    /\ HidIdle

\* what the injectors write here: a valid frame or an oversize one
FairFrames == { Frame(EncodeMsg(KeyPosPress)), OversizeBytes }

\* recv() handing over every queued byte the caller has room for
RecvAll ==
    IF data.client_fd \in PeerHandles
    THEN Min(Len(wire[data.client_fd]),
             (IF rpc = "recv_len" THEN 4 ELSE r_len) - Len(r_buf))
    ELSE 0

NextFair ==
    \/ kscan_ipc_init
    \/ kscan_ipc_configure(HOST_CALLBACK)
    \/ kscan_ipc_enable_callback
    \/ KPeerConnect
    \/ \E p \in PeerHandles : \E f \in FairFrames : KPeerSend(p, f)
    \/ \E p \in PeerHandles : KPeerClose(p)
    \/ ReaderAcceptOk
    \/ \E e \in {EINTR, EMFILE} : ReaderAcceptFail(e)
    \/ ReaderWake
    \/ ReaderRecv(RecvAll)
    \/ ReaderRecvEof
    \/ ReaderRecvErr(EIO)
    \/ ReaderResult
    \/ ReaderGate
    \/ ReaderCall

ReaderFairness ==
    /\ SF_vars(ReaderAcceptOk)
    /\ WF_vars(ReaderWake)
    /\ WF_vars(ReaderRecv(RecvAll))
    /\ WF_vars(ReaderRecvEof)
    /\ WF_vars(ReaderResult)
    /\ WF_vars(ReaderGate)
    /\ WF_vars(ReaderCall)

SpecReaderFair == InitFair /\ [][NextFair]_vars /\ ReaderFairness

(***************************************************************************)
(* Ingress framing: the injectors write valid frames, whole or in pieces   *)
(* of any size, and may close at any point; the reader receives chunks of  *)
(* any size. The host has not enabled the callback.                        *)
(***************************************************************************)
\* the messages the injectors send here; the zero message encodes to no bytes
FramingMsgs == { KeyPosPress, PositionRelease, ZeroMsg }

FramingFrames == { Frame(EncodeMsg(msg)) : msg \in FramingMsgs }

InitFraming ==
    /\ InitEgress
    /\ cfg = [rows |-> 4, columns |-> 12]
    /\ IngressBoot
    /\ HidIdle

NextFraming ==
    \/ kscan_ipc_init
    \/ KPeerConnect
    \/ \E p \in PeerHandles : \E f \in FramingFrames : KPeerSend(p, f)
    \/ \E p \in PeerHandles : \E f \in FramingFrames :
          \E n \in 1 .. (4 + zmk_ipc_ClientMessage_size) : KPeerSendPart(p, f, n)
    \/ \E p \in PeerHandles :
          \E n \in 1 .. (4 + zmk_ipc_ClientMessage_size) : KPeerSendRest(p, n)
    \/ \E p \in PeerHandles : KPeerClose(p)
    \/ ReaderAcceptOk
    \/ \E n \in 1 .. (4 + zmk_ipc_ClientMessage_size) : ReaderRecv(n)
    \/ ReaderRecvEof
    \/ ReaderResult
    \/ ReaderGate

SpecFraming == InitFraming /\ [][NextFraming]_vars

(***************************************************************************)
(* Ingress dispatch: the injectors write whole frames that all decode, some *)
(* of them carrying a message dispatch_message drops; the host has         *)
(* registered its callback and may enable it.                              *)
(***************************************************************************)
\* a KeyEvent whose action is outside the Action enum
BadActionMsg == [KeyPosPress EXCEPT !.action = 7]
\* a KeyEvent with neither address arm set
NoAddressMsg == [ZeroMsg EXCEPT !.which_payload = KEY_EVENT_TAG, !.action = ACTION_PRESS]
\* a body holding one field the ClientMessage schema does not know
UnknownPayloadBody == << 9, 0 >>

DropFrames ==
    { Frame(UnknownPayloadBody), Frame(EncodeMsg(BadActionMsg)),
      Frame(EncodeMsg(NoAddressMsg)), Frame(EncodeMsg(KeyPosPress)) }

InitDrops ==
    /\ InitEgress
    /\ cfg = [rows |-> 4, columns |-> 12]
    /\ IngressBoot
    /\ HidIdle

NextDrops ==
    \/ kscan_ipc_init
    \/ kscan_ipc_configure(HOST_CALLBACK)
    \/ kscan_ipc_enable_callback
    \/ KPeerConnect
    \/ \E p \in PeerHandles : \E f \in DropFrames : KPeerSend(p, f)
    \/ \E p \in PeerHandles : KPeerClose(p)
    \/ ReaderAcceptOk
    \/ \E n \in 1 .. (4 + zmk_ipc_ClientMessage_size) : ReaderRecv(n)
    \/ ReaderRecvEof
    \/ ReaderResult
    \/ ReaderGate
    \/ ReaderCall

SpecDrops == InitDrops /\ [][NextDrops]_vars

(***************************************************************************)
(* HID adapters: endpoint_from_str applied to one transport string         *)
(***************************************************************************)
\* how a transport string may begin
TransportHeads ==
    { << >>,
      << "U", "S", "B" >>,
      << "U", "S" >>,
      << "u", "s", "b" >>,
      << "U", "s", "B" >>,
      << "B", "L", "E", ":" >>,
      << "B", "L", "E" >>,
      << "B", "L", "E", ";" >>,
      << "b", "l", "e", ":" >>,
      << "F", "o", "o" >>,
      << "N", "o", "n", "e" >>,
      << "X", "B", "L", "E", ":" >> }

\* how it may go on
TransportTails ==
    { << >>,
      << "0" >>,
      << "2" >>,
      << "1", "2" >>,
      << "0", "0", "7" >>,
      << "2", "x" >>,
      << "x", "2" >>,
      << "-", "1" >>,
      << "+", "3" >>,
      << " ", "5" >>,
      << ":", "1" >>,
      << "B" >>,
      << "2", "1", "4", "7", "4", "8", "3", "6", "4", "7" >>,
      << "2", "1", "4", "7", "4", "8", "3", "6", "4", "8" >>,
      << "4", "2", "9", "4", "9", "6", "7", "2", "9", "5" >> }

TransportStrings == { hd \o tl : hd \in TransportHeads, tl \in TransportTails }

InitEndpoint ==
    /\ InitEgress
    /\ cfg = [rows |-> 4, columns |-> 12]
    /\ IngressBoot
    /\ h_str \in TransportStrings
    /\ h_ep = ZeroEndpoint
    /\ h_pc = "call"

NextEndpoint == EndpointFromStr

SpecEndpoint == InitEndpoint /\ [][NextEndpoint]_vars

RECURSIVE ParseFrames(_)
ParseFrames(s) ==
    IF Len(s) < 4 THEN [frames |-> << >>, rest |-> s]
    ELSE LET L == FromBE32(SubSeq(s, 1, 4))
         IN  IF Len(s) < 4 + L THEN [frames |-> << >>, rest |-> s]
             ELSE LET r == ParseFrames(SubSeq(s, 5 + L, Len(s)))
                  IN  [frames |-> << SubSeq(s, 5, 4 + L) >> \o r.frames,
                       rest   |-> r.rest]

WholeFrames(h) == ParseFrames(stream[h]).frames
Residue(h) == ParseFrames(stream[h]).rest

\* events of the broadcast_event calls started so far
StartedEvents ==
    { ev \in { [source |-> t, position |-> n, valid |-> TRUE] :
                  t \in Broadcasters, n \in 1 .. MaxCalls } :
        ev.position <= b_calls[ev.source] }

IsPrefix(a, b) == Len(a) <= Len(b) /\ SubSeq(b, 1, Len(a)) = a

Occurrences(seq, x) == Cardinality({ i \in 1 .. Len(seq) : seq[i] = x })

FirstIndex(seq, x) == CHOOSE i \in 1 .. Len(seq) : seq[i] = x

\* every send of the call in progress of thread t has succeeded
AllSendsOk(t) == \A i \in Slots : b_sent[t][i].ret = 0

(***************************************************************************)
(* C1: concurrent broadcasts are serialized.  Every observer's stream is a *)
(* concatenation of whole frames, each the frame of one broadcast event    *)
(* and none repeated, with bytes left over only on a connection the        *)
(* broadcaster has closed; and any two events whose frames both appear on  *)
(* two streams appear there in the same order.                             *)
(***************************************************************************)
C1_SerializedBroadcasts ==
    LET F == [h \in Handles |-> ParseFrames(stream[h])]
        E == { EncodeEvent(ev) : ev \in StartedEvents }
    IN  /\ \A h \in Handles :
              /\ \A k \in 1 .. Len(F[h].frames) : F[h].frames[k] \in E
              /\ \A j, k \in 1 .. Len(F[h].frames) :
                    j # k => F[h].frames[j] # F[h].frames[k]
              /\ F[h].rest # << >> =>
                    /\ closes[h] >= 1
                    /\ \E x \in E : IsPrefix(F[h].rest, Frame(x))
        /\ \A h1, h2 \in Handles :
              \A i, j \in 1 .. Len(F[h1].frames) :
                 \A k, l \in 1 .. Len(F[h2].frames) :
                    ( /\ i < j
                      /\ F[h1].frames[i] = F[h2].frames[k]
                      /\ F[h1].frames[j] = F[h2].frames[l] ) => k < l

\* two calls in flight at once (thread 1 has not yet returned, thread 2 has
\* finished its fan-out) and two observers that both hold both frames whole
C1_Witness ==
    /\ bpc[1] = "ret" /\ bpc[2] = "loop" /\ b_i[2] = MAX_CLIENTS
    /\ b_ev[1].valid /\ b_ev[2].valid
    /\ \E h1, h2 \in Handles :
          /\ h1 # h2
          /\ WholeFrames(h1) = << EncodeEvent(b_ev[1]), EncodeEvent(b_ev[2]) >>
          /\ WholeFrames(h2) = << EncodeEvent(b_ev[1]), EncodeEvent(b_ev[2]) >>
          /\ Residue(h1) = << >> /\ Residue(h2) = << >>

(***************************************************************************)
(* C2: when a broadcast whose event encoded returns and every send it made *)
(* succeeded, the event was encoded once, each of the K clients that were  *)
(* in the table got one send of exactly [BE32 length][encode(ev)], free    *)
(* slots got none, and the frame is on the stream of those K clients once  *)
(* and on no other stream.                                                 *)
(***************************************************************************)
C2_FanOut ==
    \A t \in Broadcasters :
       (bpc[t] = "ret" /\ b_ev[t].valid /\ AllSendsOk(t)) =>
          /\ b_enc[t] = 1
          /\ \A i \in Slots :
                IF b_snap[t][i] >= 0
                THEN b_sent[t][i] = [fd |-> b_snap[t][i], ret |-> 0,
                                     bytes |-> BE32(Len(EncodeEvent(b_ev[t])))
                                               \o EncodeEvent(b_ev[t])]
                ELSE b_sent[t][i] = NoSends[i]
          /\ \A h \in Handles :
                Occurrences(WholeFrames(h), EncodeEvent(b_ev[t]))
                   = IF h \in TableHandles(b_snap[t]) THEN 1 ELSE 0

\* a broadcast has returned after sending to a full table without an error
C2_Witness ==
    \E t \in Broadcasters :
       /\ bpc[t] = "ret" /\ b_ev[t].valid /\ AllSendsOk(t)
       /\ Cardinality(TableHandles(b_snap[t])) = MAX_CLIENTS

C4_TableFullRejection ==
    /\ [](apc = "reject" =>
             /\ a_client \notin TableHandles(client_fds)
             /\ closes[a_client] = 0
             /\ stream[a_client] = << >>)
    /\ [](\A h \in rejected :
             /\ h \notin TableHandles(client_fds)
             /\ closes[h] = 1
             /\ stream[h] = << >>)
    /\ [][ (apc = "insert" /\ (\A i \in Slots : client_fds[i] >= 0) /\ apc' # "insert")
              => (apc' = "reject" /\ client_fds' = client_fds) ]_vars
    /\ [][ (apc = "reject" /\ apc' # "reject")
              => (client_fds' = client_fds /\ rejected' = rejected \cup {a_client}) ]_vars
    /\ [](\A t \in Broadcasters :
             (bpc[t] = "ret" /\ b_ev[t].valid /\ AllSendsOk(t) /\ b_rej[t] # {}) =>
                \A i \in Slots :
                   b_snap[t][i] >= 0 =>
                      /\ b_sent[t][i].fd = b_snap[t][i]
                      /\ b_sent[t][i].bytes = Frame(EncodeEvent(b_ev[t])))

\* after a rejection, a broadcast has reached both clients of the full table
C4_Witness ==
    \E t \in Broadcasters :
       /\ bpc[t] = "ret" /\ b_ev[t].valid /\ AllSendsOk(t)
       /\ b_rej[t] # {}
       /\ Cardinality(TableHandles(b_snap[t])) = MAX_CLIENTS
       /\ TableHandles(client_fds) = TableHandles(b_snap[t])

(***************************************************************************)
(* Ingress claims                                                          *)
(***************************************************************************)
RECURSIVE Concat(_)
\* the bytes of a sequence of writes, in order
Concat(seqs) == IF seqs = << >> THEN << >> ELSE Head(seqs) \o Concat(Tail(seqs))

\* the messages the injectors of the model send
PeerMsgs == { KeyPosPress, PositionRelease }

\* the kinds of log entry of the k-th frame handled on connection p
Kinds(p) == [k \in 1 .. Len(rlog[p]) |-> rlog[p][k].kind]

\* the return values of zmk_ipc_frame_recv on which the reader closes the peer
ClosingReturns == { -ECONNRESET, -EPIPE, -EMSGSIZE, -EINTR, -EIO }

(***************************************************************************)
(* C5: the ingress server holds at most one accepted connection, the one   *)
(* in data->client_fd; the reader is in accept only while it holds none;   *)
(* a connection still queued has had none of its bytes read or frames      *)
(* processed; and a queued connection is accepted only in a state where no *)
(* connection is open.                                                     *)
(***************************************************************************)
C5_AtMostOnePeer ==
    /\ [](Cardinality({ p \in PeerHandles : k_state[p] = "open" }) <= 1)
    /\ [](\A p \in PeerHandles : k_state[p] = "open" => data.client_fd = p)
    /\ [](rpc = "accept" => data.client_fd < 0)
    /\ [](\A p \in PeerHandles :
             k_state[p] = "queued" => rlog[p] = << >> /\ wire[p] = Concat(k_sent[p]))
    /\ [][ \A p \in PeerHandles :
              (k_state[p] = "queued" /\ k_state'[p] = "open") =>
                 /\ rpc = "accept"
                 /\ data.client_fd < 0
                 /\ \A q \in PeerHandles : k_state[q] # "open" ]_vars

\* a second injector has connected and written while the first is served
C5_Witness ==
    \E p, q \in PeerHandles :
       /\ k_state[p] = "open" /\ data.client_fd = p
       /\ \E k \in 1 .. Len(rlog[p]) : rlog[p][k].kind = "called"
       /\ k_state[q] = "queued" /\ wire[q] # << >>

(***************************************************************************)
(* C6: the step that handles -EBADMSG leaves the peer handle, the          *)
(* connection and its unread bytes alone, dispatches nothing and goes back *)
(* to receiving on the same peer; on a connection the k-th frame handled   *)
(* is logged as a decode error exactly when the k-th frame written was the *)
(* corrupt one, and the valid frames around it are decoded and reach the   *)
(* enable test (and the callback with the event they carry).               *)
(***************************************************************************)
C6_DecodeErrorKeepsPeer ==
    /\ [][ (rpc = "result" /\ r_ret = -EBADMSG /\ rpc' # "result") =>
              /\ data' = data
              /\ k_state' = k_state
              /\ wire' = wire
              /\ rpc' = "recv_len"
              /\ rlog' = [rlog EXCEPT ![data.client_fd] =
                            Append(@, [kind |-> "decode_error", ev |-> NoEv,
                                       en |-> FALSE])] ]_vars
    /\ [](\A p \in PeerHandles :
             /\ Len(rlog[p]) <= Len(k_sent[p])
             /\ rlog[p] # << >> => (k_state[p] = "open" /\ data.client_fd = p)
             /\ \A k \in 1 .. Len(rlog[p]) :
                   /\ rlog[p][k].kind = "decode_error" <=> k_sent[p][k] = Frame(GarbageBody)
                   /\ k_sent[p][k] = Frame(EncodeMsg(KeyPosPress)) =>
                         /\ rlog[p][k].kind \in {"called", "gated"}
                         /\ rlog[p][k].ev = [row |-> 1, col |-> 3, pressed |-> TRUE])

\* valid, corrupt, valid on one connection: first and third reached the callback
C6_Witness ==
    \E p \in PeerHandles :
       /\ k_state[p] = "open" /\ data.client_fd = p
       /\ k_sent[p] = << Frame(EncodeMsg(KeyPosPress)), Frame(GarbageBody),
                         Frame(EncodeMsg(KeyPosPress)) >>
       /\ Kinds(p) = << "called", "decode_error", "called" >>

(***************************************************************************)
(* C7: the step that handles a return value of zmk_ipc_frame_recv other    *)
(* than 0 and -EBADMSG closes the peer handle, sets data->client_fd to -1, *)
(* invokes no callback and adds no log entry, and leaves the reader at     *)
(* accept; a closed connection is never the current peer.                  *)
(***************************************************************************)
C7_ErrorClosesPeer ==
    /\ [][ (rpc = "result" /\ r_ret \in ClosingReturns /\ rpc' # "result") =>
              /\ k_state'[data.client_fd] = "closed"
              /\ data'.client_fd = -1
              /\ rpc' = "accept"
              /\ r_ev' = r_ev
              /\ \A p \in PeerHandles : rlog'[p] = rlog[p] \/ rlog'[p] = << >> ]_vars
    /\ [](rpc = "result" => r_ret \in ClosingReturns \cup {0, -EBADMSG})
    /\ [](\A p \in PeerHandles :
             k_state[p] = "closed" =>
                /\ data.client_fd # p
                /\ k_why[p] \in {"peer_closed", "too_large", "io_error"})

\* one connection was closed for an oversize frame, another because the
\* injector closed, and the reader is back at accept
C7_Witness ==
    /\ rpc = "accept" /\ data.client_fd = -1
    /\ \E p, q \in PeerHandles :
          /\ k_state[p] = "closed" /\ k_why[p] = "too_large"
          /\ k_state[q] = "closed" /\ k_why[q] = "peer_closed"

(***************************************************************************)
(* C8: once started the reader thread never ends; after a backoff it is at *)
(* accept again; a return value that closes the peer leads back to accept; *)
(* a connection whose injector has closed is eventually closed by the      *)
(* reader; the connection at the head of the queue, while the reader holds *)
(* no peer, is eventually accepted; a whole valid frame at the head of the *)
(* current peer's bytes eventually reaches the enable test with the event  *)
(* it carries; and so does the frame of the connection at the head of the  *)
(* queue once another one was closed and the reader holds no peer.         *)
(***************************************************************************)
C8_ReaderKeepsAccepting ==
    /\ [][rpc # "none" => rpc' # "none"]_vars
    /\ (rpc = "sleep") ~> (rpc = "accept")
    /\ (rpc = "result" /\ r_ret \in ClosingReturns)
          ~> (rpc = "accept" /\ data.client_fd = -1)
    /\ \A p \in PeerHandles :
          /\ (k_state[p] = "open" /\ p \in k_peerClosed) ~> (k_state[p] = "closed")
          /\ (k_state[p] = "queued" /\ Head(k_backlog) = p /\ data.client_fd < 0
                /\ rpc \in {"accept", "sleep"})
                ~> (k_state[p] = "open")
          /\ (data.client_fd = p /\ rpc = "recv_len" /\ r_buf = << >>
                /\ IsPrefix(Frame(EncodeMsg(KeyPosPress)), wire[p]))
                ~> (data.client_fd = p /\ rpc = "gate"
                      /\ r_ev = [row |-> 1, col |-> 3, pressed |-> TRUE])
          /\ (k_state[p] = "queued" /\ Head(k_backlog) = p /\ data.client_fd < 0
                /\ rpc \in {"accept", "sleep"}
                /\ (\E q \in PeerHandles : k_state[q] = "closed")
                /\ IsPrefix(Frame(EncodeMsg(KeyPosPress)), wire[p]))
                ~> (data.client_fd = p /\ rpc = "gate"
                      /\ r_ev = [row |-> 1, col |-> 3, pressed |-> TRUE])

\* after one connection was closed and an accept failed, the next connection
\* was accepted and its frame reached the callback
C8_Witness ==
    \E p, q \in PeerHandles :
       /\ k_state[q] = "closed"
       /\ k_state[p] = "open" /\ data.client_fd = p
       /\ Len(rlog[p]) = 1 /\ rlog[p][1].kind = "called"

(***************************************************************************)
(* C9 as stated: under any interleaving of enable()/disable() with the     *)
(* reader, the callback is never invoked while enabled is false, and every *)
(* log entry belongs to a frame of its own (nothing is queued and replayed *)
(* later).                                                                 *)
(***************************************************************************)
C9_NoCallbackWhileDisabled ==
    \A p \in PeerHandles :
       /\ Len(rlog[p]) <= Len(k_sent[p])
       /\ \A k \in 1 .. Len(rlog[p]) : rlog[p][k].kind = "called" => rlog[p][k].en

(***************************************************************************)
(* C9 amended: the callback is invoked for an event only if enabled was    *)
(* true and a callback was set at the moment dispatch_message tested them; *)
(* an event tested while enabled is false (or no callback is set) is       *)
(* dropped at once, never queued, and the reader goes on to the next       *)
(* frame; an event tested while enabled is true with a callback set goes   *)
(* to the callback unchanged.                                              *)
(***************************************************************************)
C9_GateAtTest ==
    /\ [][ (rpc # "call" /\ rpc' = "call") =>
              (rpc = "gate" /\ data.enabled /\ data.callback # NULL /\ r_ev' = r_ev) ]_vars
    /\ [][ (rpc = "gate" /\ rpc' # "gate") =>
              IF data.enabled /\ data.callback # NULL
              THEN rpc' = "call" /\ rlog' = rlog
              ELSE /\ rpc' = "recv_len"
                   /\ r_ev' = NoEv
                   /\ rlog' = [rlog EXCEPT ![data.client_fd] =
                                 Append(@, [kind |-> "gated", ev |-> r_ev,
                                            en |-> FALSE])] ]_vars
    /\ [][ \A p \in PeerHandles :
              rlog'[p] # rlog[p] =>
                 \/ rlog'[p] = << >>
                 \/ /\ Len(rlog'[p]) = Len(rlog[p]) + 1
                    /\ SubSeq(rlog'[p], 1, Len(rlog[p])) = rlog[p]
                    /\ rlog'[p][Len(rlog'[p])].kind = "called" =>
                          (rpc = "call" /\ rlog'[p][Len(rlog'[p])].ev = r_ev) ]_vars
    /\ [](\A p \in PeerHandles : Len(rlog[p]) <= Len(k_sent[p]))

\* a frame was dropped while disabled, and after enable() the next frame
\* reached the callback
C9_Witness ==
    \E p \in PeerHandles :
       /\ data.callback # NULL
       /\ Len(rlog[p]) = 2
       /\ rlog[p][1].kind = "gated"
       /\ rlog[p][2].kind = "called" /\ rlog[p][2].en

(***************************************************************************)
(* C10: an event that reaches the callback carries, for KeyPos{r,c}, row r *)
(* and col c, for Position p with columns C > 0, row p div C and col       *)
(* p mod C, and pressed is TRUE for PRESS and FALSE for RELEASE; with      *)
(* columns = 12, Position 25 RELEASE gives (2, 1, FALSE).                  *)
(***************************************************************************)
C10_DispatchAddressing ==
    \A p \in PeerHandles : \A k \in 1 .. Len(rlog[p]) :
       rlog[p][k].kind = "called" =>
          /\ \E m \in PeerMsgs : k_sent[p][k] = Frame(EncodeMsg(m))
          /\ \A m \in PeerMsgs :
                k_sent[p][k] = Frame(EncodeMsg(m)) =>
                   /\ m.which_address = KEY_POS_TAG =>
                         (rlog[p][k].ev.row = m.row /\ rlog[p][k].ev.col = m.col)
                   /\ m.which_address = POSITION_TAG =>
                         /\ cfg.columns > 0
                         /\ rlog[p][k].ev.row = m.position \div cfg.columns
                         /\ rlog[p][k].ev.col = m.position % cfg.columns
                   /\ m.action = ACTION_PRESS => rlog[p][k].ev.pressed = TRUE
                   /\ m.action = ACTION_RELEASE => rlog[p][k].ev.pressed = FALSE
          /\ (cfg.columns = 12 /\ k_sent[p][k] = Frame(EncodeMsg(PositionRelease))) =>
                rlog[p][k].ev = [row |-> 2, col |-> 1, pressed |-> FALSE]

\* Position 25 RELEASE and KeyPos{1,3} PRESS have both reached the callback
C10_Witness ==
    /\ cfg.columns = 12
    /\ \E p \in PeerHandles : \E j, k \in 1 .. Len(rlog[p]) :
          /\ k_sent[p][j] = Frame(EncodeMsg(PositionRelease))
          /\ rlog[p][j] = [kind |-> "called", en |-> TRUE,
                           ev |-> [row |-> 2, col |-> 1, pressed |-> FALSE]]
          /\ k_sent[p][k] = Frame(EncodeMsg(KeyPosPress))
          /\ rlog[p][k] = [kind |-> "called", en |-> TRUE,
                           ev |-> [row |-> 1, col |-> 3, pressed |-> TRUE]]

(***************************************************************************)
(* C11: with columns = 0 a KeyEvent with a Position address is dropped     *)
(* whatever enabled and callback are: the step that handles it invokes no  *)
(* callback, keeps the peer handle and the connection and goes back to     *)
(* receiving; its log entry is "dropped"; KeyPos events on the same        *)
(* connection still reach the enable test with their (row, col).           *)
(***************************************************************************)
C11_ZeroColumnsDropsPosition ==
    /\ [][ (rpc = "result" /\ r_ret = 0 /\ cfg.columns = 0
              /\ r_msg.which_payload = KEY_EVENT_TAG
              /\ r_msg.which_address = POSITION_TAG /\ rpc' # "result") =>
              /\ rpc' = "recv_len"
              /\ data' = data
              /\ k_state' = k_state
              /\ rlog' = [rlog EXCEPT ![data.client_fd] =
                            Append(@, [kind |-> "dropped", ev |-> NoEv,
                                       en |-> FALSE])] ]_vars
    /\ [](cfg.columns = 0 =>
             \A p \in PeerHandles : \A k \in 1 .. Len(rlog[p]) :
                /\ k_sent[p][k] = Frame(EncodeMsg(PositionRelease)) =>
                      rlog[p][k].kind = "dropped"
                /\ k_sent[p][k] = Frame(EncodeMsg(KeyPosPress)) =>
                      /\ rlog[p][k].kind \in {"called", "gated"}
                      /\ rlog[p][k].ev = [row |-> 1, col |-> 3, pressed |-> TRUE])
    /\ [](cfg.columns = 0 /\ rpc \in {"gate", "call"} =>
             r_ev = [row |-> 1, col |-> 3, pressed |-> TRUE])

\* columns = 0, enabled with a callback: the Position event was dropped and
\* the KeyPos event after it on the same connection reached the callback
C11_Witness ==
    /\ cfg.columns = 0
    /\ \E p \in PeerHandles :
          /\ k_state[p] = "open" /\ data.client_fd = p
          /\ k_sent[p] = << Frame(EncodeMsg(PositionRelease)),
                            Frame(EncodeMsg(KeyPosPress)) >>
          /\ Kinds(p) = << "dropped", "called" >>

(***************************************************************************)
(* C12 as stated: a recv() interrupted by a signal is retried inside       *)
(* zmk_ipc_frame_recv, so zmk_ipc_frame_recv never returns -EINTR to the   *)
(* reader and no connection is closed because of it.                       *)
(***************************************************************************)
C12_EintrRetried ==
    /\ rpc = "result" => r_ret # -EINTR
    /\ \A p \in PeerHandles :
          (k_state[p] = "closed" /\ k_why[p] = "io_error") => p \in k_peerClosed

(***************************************************************************)
(* Byte accounting on an ingress connection                                *)
(***************************************************************************)
RECURSIVE SentLen(_, _)
\* number of bytes of the first k writes on connection p
SentLen(p, k) == IF k = 0 THEN 0 ELSE SentLen(p, k - 1) + Len(k_sent[p][k])

\* number of bytes the reader has taken from connection p
Consumed(p) == SentLen(p, Len(k_sent[p])) - Len(k_pend[p]) - Len(wire[p])

\* number of frames of connection p the reader has finished with
Handled(p) ==
    Len(rlog[p]) + (IF data.client_fd = p /\ rpc \in {"gate", "call"} THEN 1 ELSE 0)

\* the length prefix of the k-th write on connection p
PrefixOf(p, k) == FromBE32(SubSeq(k_sent[p][k], 1, 4))

(***************************************************************************)
(* C13: when the four prefix bytes are complete, a length above            *)
(* zmk_ipc_ClientMessage_size gives -EMSGSIZE at once, with exactly the    *)
(* four prefix bytes taken from the connection and the body bytes still    *)
(* unread; a length up to and including the maximum is not refused, the    *)
(* reader goes on to read the body, takes exactly that many body bytes     *)
(* and then has the result of the decode.                                  *)
(***************************************************************************)
C13_LengthCheck ==
    /\ [][ (rpc = "recv_len" /\ rpc' # "recv_len" /\ wire' # wire) =>
              LET p == data.client_fd
                  L == PrefixOf(p, Handled(p) + 1)
              IN  IF L > zmk_ipc_ClientMessage_size
                  THEN rpc' = "result" /\ r_ret' = -EMSGSIZE
                  ELSE rpc' = "recv_body" /\ r_len' = L /\ r_buf' = << >> ]_vars
    /\ [](\A p \in PeerHandles :
             (data.client_fd = p /\ rpc = "result" /\ r_ret = -EMSGSIZE) =>
                /\ PrefixOf(p, Handled(p) + 1) > zmk_ipc_ClientMessage_size
                /\ Consumed(p) = SentLen(p, Handled(p)) + 4)
    /\ [](\A p \in PeerHandles :
             (data.client_fd = p /\ rpc = "recv_body") =>
                /\ r_len = PrefixOf(p, Handled(p) + 1)
                /\ r_len <= zmk_ipc_ClientMessage_size
                /\ Consumed(p) = SentLen(p, Handled(p)) + 4 + Len(r_buf))
    /\ [](\A p \in PeerHandles :
             (data.client_fd = p /\ rpc = "result" /\ r_ret \in {0, -EBADMSG}) =>
                /\ PrefixOf(p, Handled(p) + 1) <= zmk_ipc_ClientMessage_size
                /\ Consumed(p) = SentLen(p, Handled(p)) + 4
                                    + PrefixOf(p, Handled(p) + 1))

\* a frame of exactly the maximum length was decoded and dispatched, and the
\* oversize prefix after it was refused with its body byte still unread
C13_Witness ==
    \E p \in PeerHandles :
       /\ data.client_fd = p /\ rpc = "result" /\ r_ret = -EMSGSIZE
       /\ k_sent[p] = << Frame(EncodeMsg(KeyPosPress)), OversizeBytes >>
       /\ Len(EncodeMsg(KeyPosPress)) = zmk_ipc_ClientMessage_size
       /\ Len(rlog[p]) = 1 /\ rlog[p][1].kind \in {"called", "gated"}
       /\ wire[p] = << 7 >>

(***************************************************************************)
(* C14: when the injector has closed and nothing is left to read, at a     *)
(* frame boundary or right after a complete length prefix of a frame with  *)
(* a body, zmk_ipc_frame_recv returns -ECONNRESET without producing a      *)
(* message, and the reader closes the peer without dispatching anything.   *)
(***************************************************************************)
C14_PeerClosed ==
    /\ [](\A p \in PeerHandles :
             (data.client_fd = p /\ rpc = "result" /\ p \in k_peerClosed
                /\ wire[p] = << >>) =>
                /\ Consumed(p) = SentLen(p, Handled(p)) => r_ret = -ECONNRESET
                /\ ( /\ Len(k_sent[p]) > Handled(p)
                     /\ Consumed(p) = SentLen(p, Handled(p)) + 4
                     /\ PrefixOf(p, Handled(p) + 1) > 0 ) => r_ret = -ECONNRESET)
    /\ [](\A p \in PeerHandles :
             (data.client_fd = p /\ rpc = "result" /\ r_ret = -ECONNRESET) =>
                /\ p \in k_peerClosed /\ wire[p] = << >>
                /\ r_msg = ZeroMsg)
    /\ [][ (rpc = "result" /\ r_ret = -ECONNRESET /\ rpc' # "result") =>
              /\ rpc' = "accept"
              /\ data'.client_fd = -1
              /\ k_state'[data.client_fd] = "closed"
              /\ r_ev' = r_ev
              /\ \A p \in PeerHandles : rlog'[p] = rlog[p] \/ rlog'[p] = << >> ]_vars

\* one injector closed without writing anything and was closed by the
\* reader; the other wrote the prefix of a frame with a body and closed
C14_Witness ==
    \E p, q \in PeerHandles :
       /\ k_state[q] = "closed" /\ k_why[q] = "peer_closed"
       /\ k_frames = 1 /\ Len(k_sent[p]) = 1
       /\ data.client_fd = p /\ rpc = "result" /\ r_ret = -ECONNRESET
       /\ Consumed(p) = 4 /\ Len(k_pend[p]) = PrefixOf(p, 1) /\ PrefixOf(p, 1) > 0

(***************************************************************************)
(* C15: frames written as [BE32 L][L bytes], L up to the maximum,          *)
(* delivered in pieces of any size: every return of zmk_ipc_frame_recv     *)
(* with 0 gives the message of the next frame written, having taken        *)
(* exactly the bytes of the frames so far; while a frame is being received *)
(* the bytes taken are those of the earlier frames plus the part received; *)
(* no frame gives an error; the log has one entry per frame, in order.     *)
(***************************************************************************)
C15_FramingRoundTrip ==
    /\ rpc = "result" => r_ret \in {0, -ECONNRESET}
    /\ \A p \in PeerHandles :
          /\ (data.client_fd = p /\ rpc = "result" /\ r_ret = 0) =>
                /\ Len(k_sent[p]) > Handled(p)
                /\ r_msg \in FramingMsgs
                /\ k_sent[p][Handled(p) + 1] = BE32(Len(EncodeMsg(r_msg))) \o EncodeMsg(r_msg)
                /\ Consumed(p) = SentLen(p, Handled(p) + 1)
          /\ (data.client_fd = p /\ rpc = "recv_len") =>
                Consumed(p) = SentLen(p, Handled(p)) + Len(r_buf)
          /\ (data.client_fd = p /\ rpc = "recv_body") =>
                Consumed(p) = SentLen(p, Handled(p)) + 4 + Len(r_buf)
          /\ (data.client_fd = p /\ rpc = "gate") =>
                Consumed(p) = SentLen(p, Handled(p))
          /\ Len(rlog[p]) <= Len(k_sent[p])
          /\ \A k \in 1 .. Len(rlog[p]) :
                /\ k_sent[p][k] = Frame(EncodeMsg(ZeroMsg)) => rlog[p][k].kind = "dropped"
                /\ k_sent[p][k] = Frame(EncodeMsg(KeyPosPress)) =>
                      rlog[p][k] = [kind |-> "gated", en |-> FALSE,
                                    ev |-> [row |-> 1, col |-> 3, pressed |-> TRUE]]
                /\ k_sent[p][k] = Frame(EncodeMsg(PositionRelease)) =>
                      rlog[p][k] = [kind |-> "gated", en |-> FALSE,
                                    ev |-> [row |-> 2, col |-> 1, pressed |-> FALSE]]

\* three frames, the second of length 0, the third written in pieces: the
\* third has just been returned, with a byte of it taken on its own
C15_Witness ==
    \E p \in PeerHandles :
       /\ data.client_fd = p /\ rpc = "result" /\ r_ret = 0
       /\ k_sent[p] = << Frame(EncodeMsg(KeyPosPress)), Frame(EncodeMsg(ZeroMsg)),
                         Frame(EncodeMsg(PositionRelease)) >>
       /\ Len(rlog[p]) = 2
       /\ r_msg = PositionRelease
       /\ wire[p] = << >> /\ k_pend[p] = << >>

(***************************************************************************)
(* C16: a call of broadcast_event whose event fails to encode goes         *)
(* straight to its return: the step writes to no client stream, closes no  *)
(* handle, leaves the client table and the mutex as they are; the call     *)
(* never owns the mutex and never makes a send.                            *)
(***************************************************************************)
C16_EncodeFailureSkipsBroadcast ==
    /\ [][ \A t \in Broadcasters :
              (bpc[t] = "idle" /\ bpc'[t] # "idle" /\ ~b_ev'[t].valid) =>
                 /\ bpc'[t] = "ret"
                 /\ stream' = stream
                 /\ closes' = closes
                 /\ client_fds' = client_fds
                 /\ clients_mutex' = clients_mutex ]_vars
    /\ [](\A t \in Broadcasters :
             (bpc[t] # "idle" /\ ~b_ev[t].valid) =>
                /\ bpc[t] = "ret"
                /\ clients_mutex # t
                /\ b_buf[t] = << >>
                /\ \A i \in Slots : b_sent[t][i] = NoSends[i])
    /\ [][ \A t \in Broadcasters :
              (bpc[t] = "ret" /\ ~b_ev[t].valid /\ bpc'[t] # "ret") =>
                 /\ bpc'[t] = "idle"
                 /\ stream' = stream
                 /\ closes' = closes
                 /\ client_fds' = client_fds
                 /\ clients_mutex' = clients_mutex ]_vars

\* a call that failed to encode has returned with a full table in which one
\* client's peer had closed: that client is still in the table, not closed
C16_Witness ==
    \E t \in Broadcasters :
       /\ bpc[t] = "ret" /\ ~b_ev[t].valid
       /\ Cardinality(TableHandles(client_fds)) = MAX_CLIENTS
       /\ b_dead[t] # {}
       /\ \A h \in b_dead[t] : h \in TableHandles(client_fds) /\ closes[h] = 0
       /\ \A h \in TableHandles(client_fds) : stream[h] = << >>

(***************************************************************************)
(* C17: a configure call with a null callback returns -EINVAL and leaves   *)
(* the instance data as it was (callback, enabled flag, peer connection);  *)
(* a configure call with a callback stores it and returns 0, changing      *)
(* nothing else; enable and disable return 0 and change only the enabled   *)
(* flag.  No step ever replaces a registered callback by null, and only    *)
(* a null configure call makes the return value an error.                  *)
(***************************************************************************)
C17_ConfigureEnableDisable ==
    /\ [][ kscan_ipc_configure(NULL) =>
              (api_ret' = -EINVAL /\ data' = data) ]_vars
    /\ [][ kscan_ipc_configure(HOST_CALLBACK) =>
              (api_ret' = 0 /\ data' = [data EXCEPT !.callback = HOST_CALLBACK]) ]_vars
    /\ [][ kscan_ipc_enable_callback =>
              (api_ret' = 0 /\ data' = [data EXCEPT !.enabled = TRUE]) ]_vars
    /\ [][ kscan_ipc_disable_callback =>
              (api_ret' = 0 /\ data' = [data EXCEPT !.enabled = FALSE]) ]_vars
    /\ [][ (data.callback # NULL) => (data'.callback = data.callback) ]_vars
    /\ [][ (api_ret' = -EINVAL /\ api_ret # -EINVAL) => data' = data ]_vars
    /\ [][ (data'.enabled # data.enabled) =>
              (api_ret' = 0 /\ data' = [data EXCEPT !.enabled = data'.enabled]) ]_vars
    /\ [](api_ret \in {0, -EINVAL})

\* a null configure call has been refused while a callback was registered, the
\* flag was set and a peer was connected: all three are still there
C17_Witness ==
    /\ api_ret = -EINVAL
    /\ data.callback = HOST_CALLBACK
    /\ data.enabled
    /\ data.client_fd >= 0
    /\ k_init_pc = "done"

\* the three reasons for which dispatch_message drops a decoded message
\* whatever the configuration
Droppable(msg) ==
    \/ msg.which_payload # KEY_EVENT_TAG
    \/ msg.action \notin {ACTION_PRESS, ACTION_RELEASE}
    \/ msg.which_address \notin {KEY_POS_TAG, POSITION_TAG}

\* the message carried by the k-th frame written on connection p
SentMsg(p, k) == pb_decode(SubSeq(k_sent[p][k], 5, Len(k_sent[p][k]))).msg

(***************************************************************************)
(* C18: when zmk_ipc_frame_recv has returned 0 with a message whose        *)
(* payload is not a KeyEvent, whose action is neither PRESS nor RELEASE or *)
(* whose address is neither KeyPos nor Position, the reader's next step    *)
(* logs a drop and goes back to receiving on the same connection, the      *)
(* instance data and the connection untouched; the callback is reached     *)
(* only for a message that is none of these; on an open connection every   *)
(* frame handled so far was dropped if its message is one of these and     *)
(* went to the callback test with its own row, column and action           *)
(* otherwise, whatever was dropped before it; and the reader closes a      *)
(* connection only when its peer has.                                      *)
(***************************************************************************)
C18_UnknownMessagesDropped ==
    /\ [][ (rpc = "result" /\ r_ret = 0 /\ Droppable(r_msg) /\ rpc' # rpc) =>
              /\ rpc' = "recv_len"
              /\ data' = data
              /\ k_state' = k_state /\ k_why' = k_why /\ wire' = wire
              /\ rlog' = [rlog EXCEPT ![data.client_fd] =
                            Append(@, [kind |-> "dropped", ev |-> NoEv, en |-> FALSE])]
         ]_vars
    /\ [](\A p \in PeerHandles :
             /\ Len(rlog[p]) <= Len(k_sent[p])
             /\ \A k \in 1 .. Len(rlog[p]) :
                   IF Droppable(SentMsg(p, k))
                   THEN rlog[p][k].kind = "dropped"
                   ELSE /\ rlog[p][k].kind \in {"called", "gated"}
                        /\ rlog[p][k].ev = [row |-> SentMsg(p, k).row,
                                            col |-> SentMsg(p, k).col,
                                            pressed |-> SentMsg(p, k).action = ACTION_PRESS]
             /\ (data.client_fd = p /\ rpc \in {"gate", "call"}) =>
                   ~Droppable(SentMsg(p, Len(rlog[p]) + 1))
             /\ k_why[p] \in {"", "peer_closed"})

\* on one open connection a message with an unknown action and one without
\* address were dropped, or one with an unknown payload tag was, and the
\* event of the frame after them reached the callback
C18_Witness ==
    \E p \in PeerHandles :
       /\ data.client_fd = p /\ k_state[p] = "open"
       /\ Len(rlog[p]) = 3
       /\ { SentMsg(p, 1), SentMsg(p, 2) } \in
             { { BadActionMsg, NoAddressMsg }, { ZeroMsg, BadActionMsg } }
       /\ k_sent[p][1] # k_sent[p][2]
       /\ rlog[p][1].kind = "dropped" /\ rlog[p][2].kind = "dropped"
       /\ rlog[p][3] = [kind |-> "called", ev |-> [row |-> 1, col |-> 3, pressed |-> TRUE],
                        en |-> TRUE]

\* the frames of the calls that took the mutex, in the order they took it
LockedFrames == [k \in 1 .. Len(lock_log) |-> Frame(EncodeEvent(lock_log[k].ev))]

\* the call that took the mutex k-th has still to reach the slot of handle h
StillToSend(k, h) ==
    LET ev == lock_log[k].ev
        t  == ev.source
    IN  /\ bpc[t] = "loop"
        /\ b_ev[t] = ev
        /\ \E i \in Slots : i >= b_i[t] /\ client_fds[i] = h

(***************************************************************************)
(* C19: on every client stream, each whole frame is the frame of one call  *)
(* that took the client-table mutex, and consecutive frames of the stream  *)
(* are the frames of calls that took the mutex one right after the other,  *)
(* so the stream is in acquisition order with no call in between left out  *)
(* and none repeated; frames of one calling thread appear with increasing  *)
(* call numbers; and a client that was in the table when a call took the   *)
(* mutex and is still in it once that call has passed its slot has that    *)
(* call's frame exactly once.                                              *)
(***************************************************************************)
C19_EgressFifoInLockOrder ==
    \A h \in Handles :
       LET w == [i \in 1 .. Len(WholeFrames(h)) |-> Frame(WholeFrames(h)[i])]
       IN  /\ \A i \in 1 .. Len(w) : Occurrences(LockedFrames, w[i]) = 1
           /\ \A i \in 1 .. (Len(w) - 1) :
                 FirstIndex(LockedFrames, w[i + 1]) = FirstIndex(LockedFrames, w[i]) + 1
           /\ \A i, j \in 1 .. Len(w) :
                 (i < j /\ w[i][6] = w[j][6]) => w[i][7] < w[j][7]
           /\ \A k \in 1 .. Len(lock_log) :
                 ( /\ h \in lock_log[k].snap
                   /\ h \in TableHandles(client_fds)
                   /\ ~StillToSend(k, h) )
                 => Occurrences(w, LockedFrames[k]) = 1

\* two threads have broadcast, one call each; a client holds both frames, in
\* the order the calls took the mutex, and is still in the table
C19_Witness ==
    \E h \in Handles :
       /\ Len(lock_log) = 2
       /\ lock_log[1].ev.source # lock_log[2].ev.source
       /\ h \in TableHandles(client_fds)
       /\ stream[h] = LockedFrames[1] \o LockedFrames[2]
       /\ clients_mutex = NO_OWNER

\* the remainder of a transport string after "BLE:"
Remainder(s) == SubSeq(s, 5, Len(s))

\* s is the decimal numeral of a value a uint32 holds
IsUintNumeral(s) ==
    /\ s # << >>
    /\ \A i \in 1 .. Len(s) : IsDigit(s[i])
    /\ ~DecimalValue(s).over

\* the uint32 a numeral denotes
parse_uint(s) == U32(DecimalValue(s).hi, DecimalValue(s).lo)

(***************************************************************************)
(* C20: the Endpoint built from a transport string is {USB, 0} if the      *)
(* string begins with "USB"; {BLE, n} if it begins with "BLE:", n being    *)
(* the unsigned integer the remainder denotes (stated for remainders that  *)
(* are the decimal numeral of a uint32 value); {NONE, 0} otherwise.        *)
(***************************************************************************)
C20_EndpointFromStr ==
    h_pc = "done" =>
       IF StartsWith(h_str, USB_LIT)
       THEN h_ep = [transport |-> TRANSPORT_USB, ble_profile_idx |-> U32(0, 0)]
       ELSE IF StartsWith(h_str, BLE_LIT)
       THEN /\ h_ep.transport = TRANSPORT_BLE
            /\ IsUintNumeral(Remainder(h_str)) =>
                  h_ep.ble_profile_idx = parse_uint(Remainder(h_str))
       ELSE h_ep = [transport |-> TRANSPORT_NONE, ble_profile_idx |-> U32(0, 0)]

\* the threads that are between k_mutex_lock and k_mutex_unlock
MutexHolders ==
    (IF apc = "insert" THEN {ACCEPT_THREAD} ELSE {}) \cup
    { t \in Broadcasters : bpc[t] = "loop" }

(***************************************************************************)
(* C21: once ipc_observer_init has run, a slot goes from free to occupied  *)
(* only in a step of the accept thread that owns clients_mutex, and from   *)
(* occupied to free only in a step of a broadcast call that owns it and is *)
(* visiting that slot; no other slot change exists; and at most one thread *)
(* is between lock and unlock at any time, the one the mutex records as    *)
(* its owner, so the threads that read or write slots never overlap.       *)
(***************************************************************************)
C21_SlotChangesUnderMutex ==
    /\ [][ \A i \in Slots :
              (init_pc = "done" /\ client_fds'[i] # client_fds[i]) =>
                 \/ /\ client_fds[i] < 0 /\ client_fds'[i] >= 0
                    /\ clients_mutex = ACCEPT_THREAD /\ apc = "insert"
                    /\ client_fds'[i] = a_client
                 \/ /\ client_fds[i] >= 0 /\ client_fds'[i] = FREE
                    /\ clients_mutex \in Broadcasters
                    /\ bpc[clients_mutex] = "loop" /\ b_i[clients_mutex] = i ]_vars
    /\ [](Cardinality(MutexHolders) <= 1)
    /\ [](MutexHolders = IF clients_mutex = NO_OWNER THEN {} ELSE {clients_mutex})

\* a broadcast call owns the mutex and has freed the slot of a client it
\* evicted, while the accept thread waits for the mutex with a new connection
C21_Witness ==
    \E t \in Broadcasters :
       /\ clients_mutex = t /\ bpc[t] = "loop" /\ b_i[t] = 1
       /\ b_snap[t][0] >= 0 /\ client_fds[0] = FREE
       /\ apc = "lock" /\ a_client >= 0

\* the connections accept() has returned so far
Accepted ==
    { h \in Handles : h < nextConn /\ \A k \in 1 .. Len(backlog) : backlog[k] # h }

\* handle h is in the accept thread's local variable `client`, still in use
InAcceptLocal(h) == apc \in {"lock", "insert", "reject"} /\ a_client = h

\* the slots holding handle h
SlotsOf(h) == { i \in Slots : client_fds[i] = h }

(***************************************************************************)
(* C22: a handle is never in two slots; a handle in a slot has not been    *)
(* closed, is not one the accept thread rejected and is no longer in the   *)
(* accept thread's local variable; an accepted handle that is not closed   *)
(* is either in that local variable or in a slot; every handle is closed   *)
(* at most once, and one closed as rejected was never sent on.             *)
(***************************************************************************)
C22_HandleOwnedOnce ==
    \A h \in Handles :
       /\ Cardinality(SlotsOf(h)) <= 1
       /\ SlotsOf(h) # {} =>
             /\ h \in Accepted
             /\ closes[h] = 0
             /\ h \notin rejected
             /\ ~InAcceptLocal(h)
       /\ (h \in Accepted /\ closes[h] = 0) => (InAcceptLocal(h) \/ SlotsOf(h) # {})
       /\ closes[h] <= 1
       /\ h \in rejected => (closes[h] = 1 /\ stream[h] = << >>)
       /\ h \notin Accepted => (closes[h] = 0 /\ SlotsOf(h) = {})

\* one connection was rejected on a full table, another was evicted by a
\* broadcast from the slot where it was, and a third is in the table
C22_Witness ==
    /\ rejected # {}
    /\ \E h \in Handles : closes[h] = 1 /\ h \notin rejected /\ stream[h] # << >>
    /\ TableHandles(client_fds) # {}
    /\ \A t \in Broadcasters : bpc[t] = "idle"

(***************************************************************************)
(* C23: in the iteration of a broadcast on an occupied slot, a send that   *)
(* returns any error closes that slot's handle once and frees that slot in *)
(* the same step, leaving every other slot and handle alone, and a send    *)
(* that succeeds leaves the table alone; the loop then goes on to the next *)
(* slot.  So for every slot the call has passed: if it was occupied when   *)
(* the call took the mutex, the send on it was attempted, and the client   *)
(* is still there iff the send succeeded.                                  *)
(***************************************************************************)
C23_WriteFailureEvictsOnlyThatClient ==
    /\ [][ \A t \in Broadcasters :
              (bpc[t] = "loop" /\ b_i[t] < MAX_CLIENTS /\ b_i'[t] # b_i[t]
                 /\ client_fds[b_i[t]] >= 0) =>
                 LET i == b_i[t]
                     h == client_fds[i]
                 IN  /\ b_i'[t] = i + 1
                     /\ b_sent'[t][i].fd = h
                     /\ \A j \in Slots \ {i} : client_fds'[j] = client_fds[j]
                     /\ \A g \in Handles \ {h} : closes'[g] = closes[g]
                     /\ IF b_sent'[t][i].ret # 0
                        THEN client_fds'[i] = FREE /\ closes'[h] = closes[h] + 1
                        ELSE client_fds'[i] = h /\ closes'[h] = closes[h] ]_vars
    /\ [](\A t \in Broadcasters :
             bpc[t] = "loop" =>
                \A i \in Slots :
                   i < b_i[t] =>
                      IF b_snap[t][i] < 0 THEN client_fds[i] < 0
                      ELSE /\ b_sent[t][i].fd = b_snap[t][i]
                           /\ IF b_sent[t][i].ret = 0
                              THEN client_fds[i] = b_snap[t][i] /\ closes[b_snap[t][i]] = 0
                              ELSE client_fds[i] = FREE /\ closes[b_snap[t][i]] = 1)

\* a broadcast has passed both slots of a full table: the write on the first
\* was truncated and that client is gone, the second client got the whole
\* frame and is still in the table
C23_Witness ==
    \E t \in Broadcasters :
       /\ bpc[t] = "loop" /\ b_i[t] = MAX_CLIENTS
       /\ b_snap[t][0] >= 0 /\ b_snap[t][1] >= 0
       /\ b_sent[t][0].ret = -EIO /\ b_sent[t][0].bytes # << >>
       /\ client_fds[0] = FREE /\ closes[b_snap[t][0]] = 1
       /\ b_sent[t][1].ret = 0 /\ client_fds[1] = b_snap[t][1]

(***************************************************************************)
(* C24: each iteration of a broadcast on an occupied slot makes one write: *)
(* the bytes added to the client's stream are a prefix of the frame        *)
(* [big-endian length][payload], the return value is 0 exactly when the    *)
(* prefix is the whole frame, and a proper non-empty prefix gives -EIO and *)
(* evicts the client in that step.  A stream that ends in a partial frame  *)
(* belongs to a closed handle that is in no slot, and no step ever adds a  *)
(* byte to it.                                                             *)
(***************************************************************************)
C24_NoWriteAfterPartialFrame ==
    /\ [][ \A t \in Broadcasters :
              (bpc[t] = "loop" /\ b_i[t] < MAX_CLIENTS /\ b_i'[t] # b_i[t]
                 /\ client_fds[b_i[t]] >= 0) =>
                 LET i     == b_i[t]
                     h     == client_fds[i]
                     frame == BE32(Len(b_buf[t])) \o b_buf[t]
                     s     == b_sent'[t][i]
                 IN  /\ IsPrefix(s.bytes, frame)
                     /\ stream' = [stream EXCEPT ![h] = @ \o s.bytes]
                     /\ (s.ret = 0) <=> (s.bytes = frame)
                     /\ (s.bytes # << >> /\ s.bytes # frame) =>
                           /\ s.ret = -EIO
                           /\ closes'[h] = 1
                           /\ h \notin TableHandles(client_fds') ]_vars
    /\ [](\A h \in Handles :
             Residue(h) # << >> => (closes[h] = 1 /\ h \notin TableHandles(client_fds)))
    /\ [][ \A h \in Handles : Residue(h) # << >> => stream'[h] = stream[h] ]_vars

\* the first of two broadcasts wrote part of its frame to a client; the
\* second has run to its end, another client has its whole frame, and the
\* first client's stream still holds the partial frame and nothing else
C24_Witness ==
    \E h, g \in Handles :
       /\ Len(lock_log) = 2
       /\ h \in lock_log[1].snap
       /\ stream[h] # << >> /\ Residue(h) = stream[h]
       /\ IsPrefix(stream[h], LockedFrames[1])
       /\ closes[h] = 1
       /\ g # h /\ stream[g] = LockedFrames[1] \o LockedFrames[2]
       /\ \A t \in Broadcasters : bpc[t] = "idle"

\* the bytes the reader has taken of the frame it is receiving on connection p
TakenOfCurrent(p) == Consumed(p) - SentLen(p, Handled(p))

(***************************************************************************)
(* C25: when the injector has closed and the reader finds nothing left in  *)
(* the middle of a length prefix or of a body, the bytes received of that  *)
(* frame are dropped, no message and no event is produced and nothing is   *)
(* logged for it; the reader then closes the connection and goes to        *)
(* accept with an empty receive buffer.  A newly accepted connection       *)
(* starts with an empty buffer and none of its bytes taken, and the        *)
(* first message received on it is that of its own first frame, made of    *)
(* exactly that frame's bytes.                                             *)
(***************************************************************************)
C25_FramesNeverSpanConnections ==
    /\ [][ (rpc \in {"recv_len", "recv_body"} /\ rpc' = "result" /\ r_ret' = -ECONNRESET) =>
              /\ r_buf' = << >> /\ r_len' = 0
              /\ r_msg' = ZeroMsg /\ r_ev' = r_ev
              /\ rlog' = rlog ]_vars
    /\ [](\A p \in PeerHandles :
             (data.client_fd = p /\ rpc = "result" /\ r_ret = -ECONNRESET) =>
                /\ Len(rlog[p]) <= Len(k_sent[p])
                /\ TakenOfCurrent(p) >= 0
                /\ Len(rlog[p]) < Len(k_sent[p]) =>
                      TakenOfCurrent(p) < Len(k_sent[p][Len(rlog[p]) + 1]))
    /\ [][ (rpc = "result" /\ r_ret = -ECONNRESET /\ rpc' # rpc) =>
              /\ rpc' = "accept"
              /\ data'.client_fd = -1
              /\ k_state'[data.client_fd] = "closed"
              /\ r_buf' = << >> /\ r_ev' = r_ev ]_vars
    /\ [](rpc = "accept" => (r_buf = << >> /\ r_len = 0 /\ data.client_fd < 0))
    /\ [][ (rpc = "accept" /\ rpc' = "recv_len") =>
              /\ data'.client_fd \in PeerHandles
              /\ r_buf' = << >>
              /\ rlog'[data'.client_fd] = << >>
              /\ Len(wire'[data'.client_fd]) + Len(k_pend'[data'.client_fd])
                    = SentLen(data'.client_fd, Len(k_sent'[data'.client_fd])) ]_vars
    /\ [](\A p \in PeerHandles :
             (data.client_fd = p /\ rpc = "result" /\ r_ret = 0 /\ rlog[p] = << >>) =>
                /\ Len(k_sent[p]) >= 1
                /\ r_msg = pb_decode(SubSeq(k_sent[p][1], 5, Len(k_sent[p][1]))).msg
                /\ Consumed(p) = Len(k_sent[p][1]))

\* an injector wrote the prefix and part of the body of a frame and closed;
\* the reader found the end of the stream in the body and dropped what it
\* had, with nothing logged, while the next connection waits with a frame
C25_Witness ==
    \E p, q \in PeerHandles :
       /\ data.client_fd = p /\ rpc = "result" /\ r_ret = -ECONNRESET
       /\ p \in k_peerClosed
       /\ Len(k_sent[p]) = 1 /\ rlog[p] = << >>
       /\ TakenOfCurrent(p) > 4 /\ TakenOfCurrent(p) < Len(k_sent[p][1])
       /\ r_buf = << >>
       /\ k_state[q] = "queued" /\ Len(k_sent[q]) = 1 /\ wire[q] = k_sent[q][1]

(***************************************************************************)
(* C26: in every state, before ipc_observer_init, after it succeeded and   *)
(* after it failed, each slot holds either -1 or a handle that accept()    *)
(* returned and nobody has closed; and every handle a broadcast call has   *)
(* sent on was such a handle of the table when the call took the mutex.    *)
(***************************************************************************)
C26_SlotsFreeOrLive ==
    /\ \A i \in Slots :
          \/ client_fds[i] = FREE
          \/ /\ client_fds[i] \in Accepted
             /\ closes[client_fds[i]] = 0
    /\ \A t \in Broadcasters : \A i \in Slots :
          b_sent[t][i].fd # FREE =>
             /\ b_sent[t][i].fd \in Accepted
             /\ b_sent[t][i].fd = b_snap[t][i]

=============================================================================
